---- MODULE Spec2Model ----
(***************************************************************************)
(* Model of the training driver of kili automl: the job dispatcher         *)
(* (train.py main), the three trainer adapters, the Hugging Face training  *)
(* backends (train_huggingface.py), the joblib based memoization layer and *)
(* its invalidation (memoization.py).                                      *)
(***************************************************************************)
EXTENDS Integers, Sequences, FiniteSets, TLC

VARIABLES
    pc,               \* position of main: "idle", "loop", "done", "crashed"
    input_type,       \* get_project(...)[0]
    opts,             \* the command line options of the current run
    idx,              \* number of jobs of `jobs` already iterated
    training_losses,  \* main's training_losses list
    error,            \* the exception that escaped main, or None
    last,             \* what the last loop iteration did (history)
    datasets,         \* disk: dataset file path -> content (sequence of characters)
    models,           \* disk: model path -> clock readings of the save_model calls into it
    now,              \* wall clock, seconds after ClockBase
    runs,             \* number of runs of main started so far
    memory,           \* disk: joblib store, entry -> stored result
    executed,         \* history: entry -> executions of the wrapped function
    lastcall,         \* history: what the last memoized call / invalidation did
    calls,            \* number of memoized calls and invalidations so far
    args,             \* the inputs of the function under check
    result            \* what it returned

vars == << pc, input_type, opts, idx, training_losses, error, last, datasets,
           models, now, runs, memory, executed, lastcall, calls, args, result >>

(***************************************************************************)
(* Bounds of the model.                                                    *)
(***************************************************************************)
MaxRuns == 2
MaxTime == 1
StampHigh == 10
MaxLines == 2
MaxCalls == 4
MaxTokens == 2
MaxPieces == 3

(***************************************************************************)
(* Python values.                                                          *)
(***************************************************************************)
None == "None"

Range(s) == { s[i] : i \in 1..Len(s) }

\* list.index(x): the position (from 0) of the first occurrence, -1 for ValueError
RECURSIVE IndexFrom(_, _, _)
IndexFrom(s, x, i) ==
    IF i > Len(s) THEN -1
    ELSE IF s[i] = x THEN i - 1
    ELSE IndexFrom(s, x, i + 1)

index(s, x) == IndexFrom(s, x, 1)

(***************************************************************************)
(* utils.constants, as train.py names them.                                *)
(***************************************************************************)
Radio == "radio"
Text == "TEXT"
Image == "IMAGE"
Classification == "CLASSIFICATION"
NamedEntitiesRecognition == "NAMED_ENTITIES_RECOGNITION"
ObjectDetection == "OBJECT_DETECTION"
Rectangle == "rectangle"
HuggingFace == "huggingface"
Ultralytics == "ultralytics"
PyTorch == "pytorch"
Tensorflow == "tensorflow"
BertBaseMultilingualCased == "bert-base-multilingual-cased"
DistilbertBaseCased == "distilbert-base-cased"
YoloV5 == "yolov5"
HOME == "HOME"

(***************************************************************************)
(* The results of a call: a normal return or a raised exception.           *)
(***************************************************************************)
Return(v) == [exc |-> None, val |-> v]
Raise(e) == [exc |-> e, val |-> None]

(***************************************************************************)
(* Default resolver, utils.helpers.set_default.                            *)
(***************************************************************************)
set_default(x, x_default, x_name, x_range) ==
    IF x = None \/ x = ""
    THEN Return(x_default)
    ELSE IF x \in x_range
         THEN Return(x)
         ELSE Raise("UnsupportedChoice")

\* utils.helpers.build_model_repository_path
build_model_repository_path(root_dir, project_id, job_name, model_repository) ==
    << root_dir, model_repository, project_id, job_name >>

(***************************************************************************)
(* Characters and strings: a string is a sequence of one-character strings.*)
(***************************************************************************)
NL == "\n"
QUOTE == "\""
BSL == "\\"
DigitChar == << "0", "1", "2", "3", "4", "5", "6", "7", "8", "9" >>

\* ord(c) for the characters of a timestamp
Ord(c) ==
    CASE c = " " -> 32
      [] c = "-" -> 45
      [] c = ":" -> 58
      [] c = "_" -> 95
      [] OTHER -> 48 + index(DigitChar, c)

\* Python's str < str: lexicographic on the characters' code points
RECURSIVE StrLessFrom(_, _, _)
StrLessFrom(a, b, i) ==
    IF i > Len(a) THEN i <= Len(b)
    ELSE IF i > Len(b) THEN FALSE
    ELSE IF a[i] = b[i] THEN StrLessFrom(a, b, i + 1)
    ELSE Ord(a[i]) < Ord(b[i])

StrLess(a, b) == StrLessFrom(a, b, 1)

\* str(n) for n >= 0
RECURSIVE str(_)
str(n) == IF n < 10 THEN << DigitChar[n + 1] >>
          ELSE str(n \div 10) \o << DigitChar[(n % 10) + 1] >>

\* "%02d" % n
Pad2(n) == IF n < 10 THEN << "0" >> \o str(n) ELSE str(n)

(***************************************************************************)
(* datetime: naive broken-down local time, as datetime.now() returns it.   *)
(***************************************************************************)
IsLeap(y) == (y % 4 = 0 /\ y % 100 # 0) \/ y % 400 = 0

DaysInMonth(y, m) ==
    IF m = 2 THEN (IF IsLeap(y) THEN 29 ELSE 28)
    ELSE IF m \in {4, 6, 9, 11} THEN 30 ELSE 31

\* proleptic Gregorian day number of a date (days since 1970-01-01)
DaysFromCivil(y0, m, d) ==
    LET y == IF m <= 2 THEN y0 - 1 ELSE y0
        era == y \div 400
        yoe == y - era * 400
        mp == IF m > 2 THEN m - 3 ELSE m + 9
        doy == (153 * mp + 2) \div 5 + d - 1
        doe == yoe * 365 + yoe \div 4 - yoe \div 100 + doy
    IN era * 146097 + doe - 719468

\* seconds since 1970-01-01 00:00:00 of a naive datetime
ToSeconds(dt) ==
    ((DaysFromCivil(dt.Y, dt.M, dt.D) * 24 + dt.h) * 60 + dt.m) * 60 + dt.s

\* dt + timedelta(seconds=1)
AddSecond(dt) ==
    IF dt.s < 59 THEN [dt EXCEPT !.s = dt.s + 1]
    ELSE IF dt.m < 59 THEN [dt EXCEPT !.s = 0, !.m = dt.m + 1]
    ELSE IF dt.h < 23 THEN [dt EXCEPT !.s = 0, !.m = 0, !.h = dt.h + 1]
    ELSE IF dt.D < DaysInMonth(dt.Y, dt.M)
         THEN [dt EXCEPT !.s = 0, !.m = 0, !.h = 0, !.D = dt.D + 1]
    ELSE IF dt.M < 12
         THEN [dt EXCEPT !.s = 0, !.m = 0, !.h = 0, !.D = 1, !.M = dt.M + 1]
    ELSE [dt EXCEPT !.s = 0, !.m = 0, !.h = 0, !.D = 1, !.M = 1, !.Y = dt.Y + 1]

\* the wall clock reads ClockBase when the model starts
ClockBase == [Y |-> 2022, M |-> 9, D |-> 30, h |-> 23, m |-> 59, s |-> 58]

RECURSIVE datetime_now(_)
\* datetime.now() when the clock reads t
datetime_now(t) == IF t = 0 THEN ClockBase ELSE AddSecond(datetime_now(t - 1))

\* mutant: the fields are not zero padded, "%Y-%-m-%-d %-H:%-M:%-S"
strftime_unpadded(dt) ==
    str(dt.Y) \o << "-" >> \o str(dt.M) \o << "-" >> \o str(dt.D) \o << " " >>
    \o str(dt.h) \o << ":" >> \o str(dt.m) \o << ":" >> \o str(dt.s)

\* mutant: the timestamp stops at the minute, "%Y-%m-%d_%H:%M"
strftime_minutes(dt) ==
    str(dt.Y) \o << "-" >> \o Pad2(dt.M) \o << "-" >> \o Pad2(dt.D) \o << "_" >>
    \o Pad2(dt.h) \o << ":" >> \o Pad2(dt.m)

\* dt.strftime("%Y-%m-%d %H:%M:%S")
strftime(dt) ==
    str(dt.Y) \o << "-" >> \o Pad2(dt.M) \o << "-" >> \o Pad2(dt.D) \o << " " >>
    \o Pad2(dt.h) \o << ":" >> \o Pad2(dt.m) \o << ":" >> \o Pad2(dt.s)

\* os.path.join(path, "model", model_framework, datetime.now().strftime(...))
path_model(path, model_framework, dt) ==
    [path |-> path, framework |-> model_framework, stamp |-> strftime(dt)]

\* os.path.join(path, "dataset", "data.json")
path_dataset(path) == path \o << "dataset", "data.json" >>

(***************************************************************************)
(* json.dumps of the dataset line {"text": ..., "label": ...}.             *)
(***************************************************************************)
TAB == "\t"
CR == "\r"
FF == "\f"
\* the backspace (0x08) and the grave accent (0x60) cannot be written in a
\* string of this language: each is a name that no other character equals
BS == "backspace"
GRAVE == "grave"

\* the characters from the space (0x20) to the tilde (0x7e), in code point order
Printable ==
    << " ", "!", QUOTE, "#", "$", "%", "&", "'", "(", ")", "*", "+", ",", "-", ".", "/",
       "0", "1", "2", "3", "4", "5", "6", "7", "8", "9", ":", ";", "<", "=", ">", "?",
       "@", "A", "B", "C", "D", "E", "F", "G", "H", "I", "J", "K", "L", "M", "N", "O",
       "P", "Q", "R", "S", "T", "U", "V", "W", "X", "Y", "Z", "[", BSL, "]", "^", "_",
       GRAVE, "a", "b", "c", "d", "e", "f", "g", "h", "i", "j", "k", "l", "m", "n", "o",
       "p", "q", "r", "s", "t", "u", "v", "w", "x", "y", "z", "{", "|", "}", "~" >>

\* the characters outside that range that can be written, or have a name above
Unprintable ==
    << [chr |-> BS, ord |-> 8], [chr |-> TAB, ord |-> 9], [chr |-> NL, ord |-> 10], [chr |-> FF, ord |-> 12],
       [chr |-> CR, ord |-> 13], [chr |-> "é", ord |-> 233] >>

HexDigit == << "0", "1", "2", "3", "4", "5", "6", "7", "8", "9", "a", "b", "c", "d", "e", "f" >>

\* every other character is the name of its code point, U+ and at least four
\* hexadecimal digits (U+00e8, U+1f600): a string that no other character equals
RECURSIVE HexString(_, _)
HexString(n, digits) ==
    IF n < 16 /\ digits <= 1 THEN HexDigit[n + 1]
    ELSE HexString(n \div 16, digits - 1) \o HexDigit[(n % 16) + 1]

RECURSIVE HexValue(_, _, _)
HexValue(name, k, acc) ==
    IF k > Len(name) THEN acc
    ELSE HexValue(name, k + 1, acc * 16 + index(HexDigit, SubSeq(name, k, k)))

\* ord(c)
ord(c) ==
    IF c \in Range(Printable) THEN 31 + (CHOOSE k \in DOMAIN Printable : Printable[k] = c)
    ELSE IF \E u \in Range(Unprintable) : u.chr = c
    THEN (CHOOSE u \in Range(Unprintable) : u.chr = c).ord
    ELSE HexValue(c, 3, 0)

\* chr(n)
chr(n) ==
    IF n >= 32 /\ n <= 126 THEN Printable[n - 31]
    ELSE IF \E u \in Range(Unprintable) : u.ord = n
    THEN (CHOOSE u \in Range(Unprintable) : u.ord = n).chr
    ELSE "U+" \o HexString(n, 4)

\* '\\u{0:04x}'.format(n)
Escape4(n) ==
    << BSL, "u", HexDigit[((n \div 4096) % 16) + 1], HexDigit[((n \div 256) % 16) + 1],
       HexDigit[((n \div 16) % 16) + 1], HexDigit[(n % 16) + 1] >>

\* the \uXXXX escape of a code point of the basic plane, the escapes of the
\* two surrogates of a code point above it
EscapeUnicode(n) ==
    IF n < 65536 THEN Escape4(n)
    ELSE Escape4(55296 + ((n - 65536) \div 1024)) \o Escape4(56320 + ((n - 65536) % 1024))

\* json.encoder.py_encode_basestring_ascii: ESCAPE_DCT for the backslash, the
\* quote and the named control characters, \uXXXX for every other character
\* outside the range from the space to the tilde
RECURSIVE EscapeFrom(_, _)
EscapeFrom(s, i) ==
    IF i > Len(s) THEN << >>
    ELSE (CASE s[i] = BSL -> << BSL, BSL >>
            [] s[i] = QUOTE -> << BSL, QUOTE >>
            [] s[i] = BS -> << BSL, "b" >>
            [] s[i] = FF -> << BSL, "f" >>
            [] s[i] = NL -> << BSL, "n" >>
            [] s[i] = CR -> << BSL, "r" >>
            [] s[i] = TAB -> << BSL, "t" >>
            [] OTHER -> IF s[i] \in Range(Printable) THEN << s[i] >>
                        ELSE EscapeUnicode(ord(s[i]))) \o EscapeFrom(s, i + 1)

json_dumps_str(s) == << QUOTE >> \o EscapeFrom(s, 1) \o << QUOTE >>

\* json.dumps({"text": text, "label": label})
json_dumps(text, label) ==
    << "{" >> \o json_dumps_str(<< "t", "e", "x", "t" >>) \o << ":", " " >>
    \o json_dumps_str(text) \o << ",", " " >>
    \o json_dumps_str(<< "l", "a", "b", "e", "l" >>) \o << ":", " " >>
    \o str(label) \o << "}" >>

(***************************************************************************)
(* json.loads, as json.decoder and json.scanner compute it.  A value is a  *)
(* record of its Python type and its content; a dict is the sequence of    *)
(* its items in insertion order.                                           *)
(***************************************************************************)
StartsWith(s, i, prefix) ==
    /\ i + Len(prefix) - 1 <= Len(s)
    /\ SubSeq(s, i, i + Len(prefix) - 1) = prefix

\* int(s[i:i+4], 16), -1 when these are not four hexadecimal digits
HexDigitOf(c) ==
    IF index(HexDigit, c) >= 0 THEN index(HexDigit, c)
    ELSE IF c \in {"A", "B", "C", "D", "E", "F"} THEN index(<< "A", "B", "C", "D", "E", "F" >>, c) + 10
    ELSE -1

Hex4(s, i) ==
    IF i + 3 > Len(s) \/ \E k \in i..(i + 3) : HexDigitOf(s[k]) < 0 THEN -1
    ELSE HexDigitOf(s[i]) * 4096 + HexDigitOf(s[i + 1]) * 256
         + HexDigitOf(s[i + 2]) * 16 + HexDigitOf(s[i + 3])

\* the character a backslash and c stand for, "" when there is none
Unescaped(c) ==
    CASE c = QUOTE -> QUOTE
      [] c = BSL -> BSL
      [] c = "/" -> "/"
      [] c = "b" -> BS
      [] c = "f" -> FF
      [] c = "n" -> NL
      [] c = "r" -> CR
      [] c = "t" -> TAB
      [] OTHER -> ""

\* a high surrogate and the escape after it: one character when that is a low
\* surrogate, the high surrogate alone otherwise
JoinSurrogates(i, uni, uni2) ==
    IF uni2 < 0 THEN [chr |-> "", next |-> 0]
    ELSE IF uni2 >= 56320 /\ uni2 <= 57343
    THEN [chr |-> chr(65536 + (uni - 55296) * 1024 + (uni2 - 56320)), next |-> i + 12]
    ELSE [chr |-> chr(uni), next |-> i + 6]

DecodeEscape(s, i, uni) ==
    IF uni < 0 THEN [chr |-> "", next |-> 0]
    ELSE IF uni >= 55296 /\ uni <= 56319 /\ StartsWith(s, i + 6, << BSL, "u" >>)
    THEN JoinSurrogates(i, uni, Hex4(s, i + 8))
    ELSE [chr |-> chr(uni), next |-> i + 6]

\* the character of the \uXXXX escape whose backslash is at the position i,
\* and the position after it
UnicodeEscape(s, i) == DecodeEscape(s, i, Hex4(s, i + 2))

\* json.decoder.py_scanstring, strict: a JSON string from the character after
\* its opening quote; a control character (below the space) is not allowed in it
RECURSIVE ScanString(_, _, _)
ScanString(s, i, acc) ==
    IF i > Len(s) \/ (s[i] \notin Range(Printable) /\ ord(s[i]) < 32)
    THEN [ok |-> FALSE, val |-> acc, next |-> i]
    ELSE IF s[i] = QUOTE THEN [ok |-> TRUE, val |-> acc, next |-> i + 1]
    ELSE IF s[i] # BSL THEN ScanString(s, i + 1, Append(acc, s[i]))
    ELSE IF i + 1 > Len(s) THEN [ok |-> FALSE, val |-> acc, next |-> i]
    ELSE IF s[i + 1] = "u"
    THEN (IF UnicodeEscape(s, i).next = 0 THEN [ok |-> FALSE, val |-> acc, next |-> i]
          ELSE ScanString(s, UnicodeEscape(s, i).next, Append(acc, UnicodeEscape(s, i).chr)))
    ELSE IF Unescaped(s[i + 1]) # "" THEN ScanString(s, i + 2, Append(acc, Unescaped(s[i + 1])))
    ELSE [ok |-> FALSE, val |-> acc, next |-> i]

\* a JSON integer without sign
RECURSIVE ScanInt(_, _, _, _)
ScanInt(s, i, acc, any) ==
    IF i <= Len(s) /\ index(DigitChar, s[i]) >= 0
    THEN ScanInt(s, i + 1, acc * 10 + index(DigitChar, s[i]), TRUE)
    ELSE [ok |-> any, val |-> acc, next |-> i]

NoValue == [ok |-> FALSE, val |-> None, next |-> 0]

Value(type, v, next) == [ok |-> TRUE, val |-> [type |-> type, v |-> v], next |-> next]

\* s[i:i+1] at the position i (from 1)
At(s, i) == IF i >= 1 /\ i <= Len(s) THEN s[i] ELSE ""

\* json.decoder.WHITESPACE.match(s, i).end()
RECURSIVE SkipWhitespace(_, _)
SkipWhitespace(s, i) ==
    IF At(s, i) \in {" ", TAB, NL, CR} THEN SkipWhitespace(s, i + 1) ELSE i

RECURSIVE SkipDigits(_, _)
SkipDigits(s, i) ==
    IF index(DigitChar, At(s, i)) >= 0 THEN SkipDigits(s, i + 1) ELSE i

\* the end of (\.\d+)? from the position i
FracEnd(s, i) ==
    IF At(s, i) = "." /\ index(DigitChar, At(s, i + 1)) >= 0 THEN SkipDigits(s, i + 1) ELSE i

\* the end of ([eE][-+]?\d+)? from the position i
ExpEnd(s, i) ==
    IF At(s, i) \notin {"e", "E"} THEN i
    ELSE IF At(s, i + 1) \in {"+", "-"} /\ index(DigitChar, At(s, i + 2)) >= 0
    THEN SkipDigits(s, i + 2)
    ELSE IF index(DigitChar, At(s, i + 1)) >= 0 THEN SkipDigits(s, i + 1)
    ELSE i

\* int(integer), or float(integer + frac + exp) kept as it is written
Number(s, i, d, int_end, end) ==
    IF int_end = d THEN NoValue
    ELSE IF end = int_end
    THEN Value("int", (IF d = i THEN 1 ELSE -1) * ScanInt(SubSeq(s, d, int_end - 1), 1, 0, FALSE).val, end)
    ELSE Value("float", SubSeq(s, i, end - 1), end)

NumberFrom(s, i, d, int_end) == Number(s, i, d, int_end, ExpEnd(s, FracEnd(s, int_end)))

NumberAfterSign(s, i, d) ==
    NumberFrom(s, i, d, IF At(s, d) = "0" THEN d + 1 ELSE SkipDigits(s, d))

\* json.scanner.NUMBER_RE.match(s, i): (-?(?:0|[1-9]\d*))(\.\d+)?([eE][-+]?\d+)?
MatchNumber(s, i) == NumberAfterSign(s, i, IF At(s, i) = "-" THEN i + 1 ELSE i)

\* dict(pairs) built item by item: a repeated key keeps its place and takes the
\* last value
RECURSIVE SetItem(_, _, _)
SetItem(pairs, key, value) ==
    IF pairs = << >> THEN << << key, value >> >>
    ELSE IF Head(pairs)[1] = key THEN << << key, value >> >> \o Tail(pairs)
    ELSE << Head(pairs) >> \o SetItem(Tail(pairs), key, value)

String(string) == IF string.ok THEN Value("str", string.val, string.next) ELSE NoValue

\* a scalar at the position `at`: json.scanner.py_make_scanner._scan_once
\* without its cases for an object and an array
ScanScalar(s, at) ==
    CASE At(s, at) = QUOTE -> String(ScanString(s, at + 1, << >>))
      [] StartsWith(s, at, << "n", "u", "l", "l" >>) -> Value("NoneType", None, at + 4)
      [] StartsWith(s, at, << "t", "r", "u", "e" >>) -> Value("bool", TRUE, at + 4)
      [] StartsWith(s, at, << "f", "a", "l", "s", "e" >>) -> Value("bool", FALSE, at + 5)
      [] StartsWith(s, at, << "N", "a", "N" >>) -> Value("float", SubSeq(s, at, at + 2), at + 3)
      [] StartsWith(s, at, << "I", "n", "f", "i", "n", "i", "t", "y" >>) ->
           Value("float", SubSeq(s, at, at + 7), at + 8)
      [] StartsWith(s, at, << "-", "I", "n", "f", "i", "n", "i", "t", "y" >>) ->
           Value("float", SubSeq(s, at, at + 8), at + 9)
      [] OTHER -> MatchNumber(s, at)

Key(s, key, colon) ==
    IF key.ok /\ At(s, colon) = ":"
    THEN [ok |-> TRUE, val |-> key.val, next |-> SkipWhitespace(s, colon + 1)]
    ELSE NoValue

\* the key of json.decoder.JSONObject from the character after its opening
\* quote, and the position of the value after the colon
ScanKey(s, end) ==
    Key(s, ScanString(s, end, << >>), SkipWhitespace(s, ScanString(s, end, << >>).next))

\* the container on top of the stack, with the value added to it
Added(frame, value) ==
    IF frame.type = "dict" THEN [frame EXCEPT !.items = SetItem(@, frame.key, value)]
    ELSE [frame EXCEPT !.items = Append(@, value)]

Config(at, stack, mode, val) == [at |-> at, stack |-> stack, mode |-> mode, val |-> val]

Error == Config(0, << >>, "error", None)

\* an object or an array opens before the position `first`
OpenStep(s, type, first, stack) ==
    IF At(s, first) = (IF type = "dict" THEN "}" ELSE "]")
    THEN Config(first + 1, stack, "done", [type |-> type, v |-> << >>])
    ELSE IF type = "list" THEN Config(first, << [type |-> type, items |-> << >>, key |-> << >>] >> \o stack, "value", None)
    ELSE IF At(s, first) # QUOTE THEN Error
    ELSE Config(first + 1, << [type |-> type, items |-> << >>, key |-> << >>] >> \o stack, "key", None)

ScalarStep(scalar, stack) ==
    IF scalar.ok THEN Config(scalar.next, stack, "done", scalar.val) ELSE Error

KeyStep(key, stack) ==
    IF key.ok
    THEN Config(key.next, << [Head(stack) EXCEPT !.key = key.val] >> \o Tail(stack), "value", None)
    ELSE Error

\* the container `frame` goes on, with a key or a value at the position `following`
CommaStep(s, frame, following, stack) ==
    IF frame.type = "list" THEN Config(following, << frame >> \o Tail(stack), "value", None)
    ELSE IF At(s, following) # QUOTE THEN Error
    ELSE Config(following + 1, << frame >> \o Tail(stack), "key", None)

\* a value has gone into the container `frame`, and `after` is the position of
\* the next character that is no whitespace
DoneStep(s, frame, after, stack) ==
    IF At(s, after) = (IF frame.type = "dict" THEN "}" ELSE "]")
    THEN Config(after + 1, Tail(stack), "done", [type |-> frame.type, v |-> frame.items])
    ELSE IF At(s, after) # "," THEN Error
    ELSE CommaStep(s, frame, SkipWhitespace(s, after + 1), stack)

\* one step of _scan_once, json.decoder.JSONObject and json.decoder.JSONArray
\* calling one another, with the objects and arrays that are open kept on a
\* stack.  In the mode "value" a value is expected at the position c.at, in
\* the mode "key" a key after its opening quote, in the mode "done" the value
\* c.val has ended before c.at and goes into the container on top
ScanStep(s, c) ==
    CASE c.mode = "value" /\ At(s, c.at) = "{" ->
           OpenStep(s, "dict", SkipWhitespace(s, c.at + 1), c.stack)
      [] c.mode = "value" /\ At(s, c.at) = "[" ->
           OpenStep(s, "list", SkipWhitespace(s, c.at + 1), c.stack)
      [] c.mode = "value" /\ At(s, c.at) \notin {"{", "["} ->
           ScalarStep(ScanScalar(s, c.at), c.stack)
      [] c.mode = "key" -> KeyStep(ScanKey(s, c.at), c.stack)
      [] c.mode = "done" ->
           DoneStep(s, Added(Head(c.stack), c.val), SkipWhitespace(s, c.at), c.stack)

\* the steps up to the end of the outermost value, or to the first error
RECURSIVE ScanLoop(_, _)
ScanLoop(s, c) ==
    IF c.mode = "error" THEN NoValue
    ELSE IF c.mode = "done" /\ c.stack = << >> THEN [ok |-> TRUE, val |-> c.val, next |-> c.at]
    ELSE ScanLoop(s, ScanStep(s, c))

\* json.scanner.py_make_scanner._scan_once, at the position `at` (idx, from 1)
scan_once(s, at) == ScanLoop(s, Config(at, << >>, "value", None))

\* the value, when only whitespace follows it
Decoded(s, obj) ==
    IF obj.ok /\ SkipWhitespace(s, obj.next) = Len(s) + 1 THEN Return(obj.val)
    ELSE Raise("JSONDecodeError")

\* json.loads(s): one value between whitespace, or json.JSONDecodeError
json_decode(s) == Decoded(s, scan_once(s, SkipWhitespace(s, 1)))

(***************************************************************************)
(* The outside world: the assets' contents behind their URLs, the labeling *)
(* platform's job descriptors, the training backend's loss.                *)
(***************************************************************************)
Urls == { "url_a", "url_nl", "url_quote", "url_tab", "url_down" }

\* requests.get(url): the response, or the exception requests raises
requests_get(url) ==
    CASE url = "url_a" -> Return(<< "a" >>)
      [] url = "url_nl" -> Return(<< "a", NL, "b" >>)
      [] url = "url_quote" -> Return(<< QUOTE, BSL >>)
      [] url = "url_tab" -> Return(<< TAB, CR, FF, "é" >>)
      [] OTHER -> Raise("ConnectionError")

\* output.training_loss of trainer.train()
training_loss_of_trainer == "loss"

\* utils.helpers.categories_from_job
categories_from_job(job) == job.categories

EmptyDisk == [p \in {} |-> << >>]

\* utils.helpers.ensure_dir + open(..., "w"): the file exists with this content
WriteFile(fs, path, content) ==
    [p \in DOMAIN fs \cup {path} |-> IF p = path THEN content ELSE fs[p]]

\* os.remove(path)
RemoveFile(fs, path) == [p \in DOMAIN fs \ {path} |-> fs[p]]

\* trainer.save_model(ensure_dir(path_model)) at clock reading t: the directory
\* exists from now on; the model keeps the readings of the saves it received
save_model(ms, pm, t) ==
    [p \in DOMAIN ms \cup {pm} |->
        IF p = pm THEN (IF p \in DOMAIN ms THEN Append(ms[p], t) ELSE << t >>) ELSE ms[p]]

\* what a backend hands back: exception or loss, the disk it leaves, whether it trained
Outcome(exc, val, ds, ms, trained) ==
    [exc |-> exc, val |-> val, datasets |-> ds, models |-> ms, trained |-> trained]

(***************************************************************************)
(* train_huggingface.py                                                    *)
(***************************************************************************)
\* the loop over the assets of huggingface_train_text_classification_single:
\* the exception that ended it (None when it completed) and the file's content
\* mutant: the label is the category's position counted from one
RECURSIVE WriteAssets_one_based(_, _, _, _)
WriteAssets_one_based(assets, job_categories, i, content) ==
    IF i > Len(assets) THEN [exc |-> None, content |-> content]
    ELSE LET response == requests_get(assets[i].content)
             label == index(job_categories, assets[i].category)
         IN IF response.exc # None
            THEN [exc |-> response.exc, content |-> content]
            ELSE IF label < 0
            THEN [exc |-> "ValueError", content |-> content]
            ELSE WriteAssets_one_based(assets, job_categories, i + 1,
                     content \o json_dumps(response.val, label + 1) \o << NL >>)

RECURSIVE WriteAssets(_, _, _, _)
WriteAssets(assets, job_categories, i, content) ==
    IF i > Len(assets) THEN [exc |-> None, content |-> content]
    ELSE LET asset == assets[i]
             response == requests_get(asset.content)
             label_category == asset.category
             label == index(job_categories, label_category)
         IN IF response.exc # None
            THEN [exc |-> response.exc, content |-> content]
            ELSE IF label < 0
            THEN [exc |-> "ValueError", content |-> content]
            ELSE WriteAssets(assets, job_categories, i + 1,
                             content \o json_dumps(response.val, label) \o << NL >>)

\* the model framework branch, trainer.train() and trainer.save_model()
TrainAndSave(model_framework, path, ds, ms, t) ==
    LET pm == path_model(path, model_framework, datetime_now(t))
    IN IF model_framework \in {PyTorch, Tensorflow}
       THEN Outcome(None, training_loss_of_trainer, ds, save_model(ms, pm, t), TRUE)
       ELSE Outcome("NotImplementedError", None, ds, ms, FALSE)

\* mutant: an existing dataset file is silently overwritten
huggingface_train_text_classification_single_no_guard(assets, job, job_name, model_framework, model_name, path, clear_dataset_cache, ds, ms, t) ==
    LET pd == path_dataset(path)
        w == WriteAssets(assets, categories_from_job(job), 1, << >>)
        ds2 == WriteFile(ds, pd, w.content)
    IN IF w.exc # None
       THEN Outcome(w.exc, None, ds2, ms, FALSE)
       ELSE TrainAndSave(model_framework, path, ds2, ms, t)

\* mutant: a dataset file whose writing failed is removed again
huggingface_train_text_classification_single_cleanup(assets, job, job_name, model_framework, model_name, path, clear_dataset_cache, ds, ms, t) ==
    LET pd == path_dataset(path)
        ds1 == IF pd \in DOMAIN ds /\ clear_dataset_cache THEN RemoveFile(ds, pd) ELSE ds
    IN IF pd \in DOMAIN ds1
       THEN Outcome("FileExistsError", None, ds1, ms, FALSE)
       ELSE LET job_categories == categories_from_job(job)
                w == WriteAssets(assets, job_categories, 1, << >>)
                ds2 == WriteFile(ds1, pd, w.content)
            IN IF w.exc # None
               THEN Outcome(w.exc, None, ds1, ms, FALSE)
               ELSE TrainAndSave(model_framework, path, ds2, ms, t)

huggingface_train_text_classification_single(assets, job, job_name, model_framework, model_name, path, clear_dataset_cache, ds, ms, t) ==
    LET pd == path_dataset(path)
        ds1 == IF pd \in DOMAIN ds /\ clear_dataset_cache THEN RemoveFile(ds, pd) ELSE ds
    IN IF pd \in DOMAIN ds1
       THEN Outcome("FileExistsError", None, ds1, ms, FALSE)
       ELSE LET job_categories == categories_from_job(job)
                w == WriteAssets(assets, job_categories, 1, << >>)
                ds2 == WriteFile(ds1, pd, w.content)
            IN IF w.exc # None
               THEN Outcome(w.exc, None, ds2, ms, FALSE)
               ELSE TrainAndSave(model_framework, path, ds2, ms, t)

\* utils.huggingface.converters.kili_assets_to_hf_ner_dataset: the same guard on
\* the dataset file, then one line per asset
kili_assets_to_hf_ner_dataset(job, job_name, pd, assets, clear_dataset_cache, ds) ==
    LET ds1 == IF pd \in DOMAIN ds /\ clear_dataset_cache THEN RemoveFile(ds, pd) ELSE ds
    IN IF pd \in DOMAIN ds1
       THEN [exc |-> "FileExistsError", datasets |-> ds1]
       ELSE [exc |-> None,
             datasets |-> WriteFile(ds1, pd,
                 [i \in 1..(2 * Len(assets)) |-> IF i % 2 = 1 THEN "{}" ELSE NL])]

huggingface_train_ner(assets, job, job_name, model_framework, model_name, path, clear_dataset_cache, ds, ms, t) ==
    LET pd == path_dataset(path)
        c == kili_assets_to_hf_ner_dataset(job, job_name, pd, assets, clear_dataset_cache, ds)
    IN IF c.exc # None
       THEN Outcome(c.exc, None, c.datasets, ms, FALSE)
       ELSE TrainAndSave(model_framework, path, c.datasets, ms, t)

\* utils.ultralytics.train.ultralytics_train_yolov5: memoized downloads, no dataset
\* guard; the yolov5 package lays its own artifacts out
ultralytics_train_yolov5(path, job, model_framework, clear_dataset_cache, ds, ms, t) ==
    Outcome(None, training_loss_of_trainer, ds, ms, TRUE)

(***************************************************************************)
(* train.py: the adapters.  An adapter's outcome adds, to its backend's,   *)
(* whether the backend was called and what the resolver produced.          *)
(***************************************************************************)
Adapted(o, backend, resolved) ==
    [exc |-> o.exc, val |-> o.val, datasets |-> o.datasets, models |-> o.models,
     trained |-> o.trained, backend |-> backend, resolved |-> resolved]

Unresolved(exc, ds, ms, resolved) ==
    Adapted(Outcome(exc, None, ds, ms, FALSE), FALSE, resolved)

train_image_bounding_box(job, job_name, model_framework, model_name, model_repository, project_id, clear_dataset_cache, ds, ms, t) ==
    LET r == set_default(model_repository, Ultralytics, "model_repository", {Ultralytics})
        path == build_model_repository_path(HOME, project_id, job_name, r.val)
        f == set_default(model_framework, PyTorch, "model_framework", {PyTorch})
        n == set_default(model_name, YoloV5, "model_name", {YoloV5})
    IN IF r.exc # None THEN Unresolved(r.exc, ds, ms, << None, None, None >>)
       ELSE IF r.val # Ultralytics
       THEN Unresolved(None, ds, ms, << r.val, None, None >>)
       ELSE IF f.exc # None THEN Unresolved(f.exc, ds, ms, << r.val, None, None >>)
       ELSE IF n.exc # None THEN Unresolved(n.exc, ds, ms, << r.val, f.val, None >>)
       ELSE Adapted(ultralytics_train_yolov5(path, job, f.val, clear_dataset_cache, ds, ms, t),
                    TRUE, << r.val, f.val, n.val >>)

\* mutant: the model name goes to the backend as given
train_ner_name_unresolved(assets, job, job_name, model_framework, model_name, model_repository, project_id, clear_dataset_cache, ds, ms, t) ==
    LET r == set_default(model_repository, HuggingFace, "model_repository", {HuggingFace})
        path == build_model_repository_path(HOME, project_id, job_name, r.val)
        f == set_default(model_framework, PyTorch, "model_framework", {PyTorch, Tensorflow})
    IN IF r.exc # None THEN Unresolved(r.exc, ds, ms, << None, None, None >>)
       ELSE IF f.exc # None THEN Unresolved(f.exc, ds, ms, << r.val, None, None >>)
       ELSE Adapted(huggingface_train_ner(assets, job, job_name, f.val, model_name, path,
                                          clear_dataset_cache, ds, ms, t),
                    TRUE, << r.val, f.val, model_name >>)

train_ner(assets, job, job_name, model_framework, model_name, model_repository, project_id, clear_dataset_cache, ds, ms, t) ==
    LET r == set_default(model_repository, HuggingFace, "model_repository", {HuggingFace})
        path == build_model_repository_path(HOME, project_id, job_name, r.val)
        f == set_default(model_framework, PyTorch, "model_framework", {PyTorch, Tensorflow})
        n == set_default(model_name, BertBaseMultilingualCased, "model_name",
                         {BertBaseMultilingualCased, DistilbertBaseCased})
    IN IF r.exc # None THEN Unresolved(r.exc, ds, ms, << None, None, None >>)
       ELSE IF r.val # HuggingFace
       THEN Unresolved(None, ds, ms, << r.val, None, None >>)
       ELSE IF f.exc # None THEN Unresolved(f.exc, ds, ms, << r.val, None, None >>)
       ELSE IF n.exc # None THEN Unresolved(n.exc, ds, ms, << r.val, f.val, None >>)
       ELSE Adapted(huggingface_train_ner(assets, job, job_name, f.val, n.val, path,
                                          clear_dataset_cache, ds, ms, t),
                    TRUE, << r.val, f.val, n.val >>)

train_text_classification_single(assets, job, job_name, model_framework, model_name, model_repository, project_id, clear_dataset_cache, ds, ms, t) ==
    LET r == set_default(model_repository, HuggingFace, "model_repository", {HuggingFace})
        path == build_model_repository_path(HOME, project_id, job_name, r.val)
        f == set_default(model_framework, PyTorch, "model_framework", {PyTorch, Tensorflow})
        n == set_default(model_name, BertBaseMultilingualCased, "model_name",
                         {BertBaseMultilingualCased})
    IN IF r.exc # None THEN Unresolved(r.exc, ds, ms, << None, None, None >>)
       ELSE IF r.val # HuggingFace
       THEN Unresolved(None, ds, ms, << r.val, None, None >>)
       ELSE IF f.exc # None THEN Unresolved(f.exc, ds, ms, << r.val, None, None >>)
       ELSE IF n.exc # None THEN Unresolved(n.exc, ds, ms, << r.val, f.val, None >>)
       ELSE Adapted(huggingface_train_text_classification_single(
                        assets, job, job_name, f.val, n.val, path,
                        clear_dataset_cache, ds, ms, t),
                    TRUE, << r.val, f.val, n.val >>)

(***************************************************************************)
(* train.py: main.                                                         *)
(***************************************************************************)
\* an optional value is a sequence of length 0 (None, or the key is absent) or 1
Absent == << >>
Some(v) == << v >>

\* assets[:max_assets] if max_assets is not None else assets
Truncate(assets, max_assets) ==
    IF max_assets = Absent THEN assets
    ELSE LET stop == IF max_assets[1] < 0 THEN Len(assets) + max_assets[1] ELSE max_assets[1]
         IN SubSeq(assets, 1, IF stop < 0 THEN 0 ELSE IF stop > Len(assets) THEN Len(assets) ELSE stop)

\* json.loads(json_args) if json_args is not None else {}
args_dict_of(json_args) ==
    IF json_args # Absent THEN json_decode(json_args[1])
    ELSE Return([type |-> "dict", v |-> << >>])

\* the branch of the if / elif chain of main's loop body that is taken, or the
\* TypeError of `Tool.Rectangle in tools` when tools is None
Branch(content_input, project_input_type, ml_task, tools) ==
    IF content_input = Radio /\ project_input_type = Text /\ ml_task = Classification
    THEN "train_text_classification_single"
    ELSE IF content_input = Radio /\ project_input_type = Text
            /\ ml_task = NamedEntitiesRecognition
    THEN "train_ner"
    ELSE IF content_input = Radio /\ project_input_type = Image
            /\ ml_task = ObjectDetection
    THEN (IF tools = Absent THEN "TypeError"
          ELSE IF Rectangle \in tools[1] THEN "train_image_bounding_box"
          ELSE "not implemented yet")
    ELSE "not implemented yet"

\* one iteration of main's for loop: the adapters it invoked and their outcome;
\* the arguments of a call are evaluated before the adapter is entered
Iteration(job_name, job, assets, o, project_input_type, ds, ms, t) ==
    LET content_input == job.content_input
        ml_task == job.mlTask
        tools == job.tools
        branch == Branch(content_input, project_input_type, ml_task, tools)
        given == Truncate(assets, o.max_assets)
        NoCall(exc) == [adapters |-> << >>,
                        out |-> Unresolved(exc, ds, ms, << None, None, None >>)]
    IN CASE branch = "train_text_classification_single" ->
              [adapters |-> << branch >>,
               out |-> train_text_classification_single(
                           given, job, job_name, o.model_framework, o.model_name,
                           o.model_repository, o.project_id, o.clear_dataset_cache,
                           ds, ms, t)]
         [] branch = "train_ner" ->
              [adapters |-> << branch >>,
               out |-> train_ner(given, job, job_name, o.model_framework, o.model_name,
                                 o.model_repository, o.project_id,
                                 o.clear_dataset_cache, ds, ms, t)]
         [] branch = "train_image_bounding_box" ->
              IF args_dict_of(o.json_args).exc # None
              THEN NoCall(args_dict_of(o.json_args).exc)
              ELSE [adapters |-> << branch >>,
                    out |-> train_image_bounding_box(
                                job, job_name, o.model_framework, o.model_name,
                                o.model_repository, o.project_id, o.clear_dataset_cache,
                                ds, ms, t)]
         [] branch = "TypeError" -> NoCall("TypeError")
         [] OTHER -> NoCall(None)

(***************************************************************************)
(* kiliautoml/utils/memoization.py                                         *)
(***************************************************************************)
\* kiliautoml.utils.path.Path.cache
Path_cache(project_id, sub_dir) == << HOME, project_id, sub_dir >>

\* kiliautoml.utils.path.Path.model_repository
Path_model_repository(root_dir, project_id, job_name, model_repository) ==
    build_model_repository_path(root_dir, project_id, job_name, model_repository)

\* kiliautoml.utils.path.Path.append_hf_model_folder
Path_append_hf_model_folder(path, model_framework) ==
    [path |-> path, framework |-> model_framework]

\* typing.get_args(ModelRepositoryT)
ModelRepositories == << HuggingFace, Ultralytics >>

\* the wrapped function runs at clock reading t: what the platform answers then
Execute(some_function, call_args, kwargs, t) ==
    [of |-> some_function, args |-> call_args, kwargs |-> kwargs, at |-> t]

\* Memory(location, verbose=0).cache(some_function)(*args, **kwargs): joblib makes
\* the directory, then returns the stored result of (function, arguments) or
\* runs the function and stores its result
memory_cache(location, some_function, call_args, kwargs, mem, t) ==
    LET key == [location |-> location, func |-> some_function, args |-> call_args,
                kwargs |-> kwargs]
        dirs == mem.dirs \cup {location}
    IN IF key \in DOMAIN mem.store
       THEN [exc |-> None, val |-> mem.store[key], key |-> key, ran |-> FALSE,
             memory |-> [dirs |-> dirs, store |-> mem.store]]
       ELSE LET value == Execute(some_function, call_args, kwargs, t)
            IN [exc |-> None, val |-> value, key |-> key, ran |-> TRUE,
                memory |-> [dirs |-> dirs, store |-> WriteFile(mem.store, key, value)]]

\* kwargs.get("project_id")
kwargs_get_project_id(kwargs) == kwargs.project_id

\* mutant: the wrapper calls some_function and never looks at the store
kili_project_memoizer_uncached(sub_dir, some_function, call_args, kwargs, mem, t) ==
    LET project_id == kwargs_get_project_id(kwargs)
        location == Path_cache(project_id[1], sub_dir)
        key == [location |-> location, func |-> some_function, args |-> call_args,
                kwargs |-> kwargs]
        value == Execute(some_function, call_args, kwargs, t)
    IN IF project_id = Absent \/ project_id = Some("")
       THEN [exc |-> "ValueError", val |-> None, key |-> None, ran |-> FALSE, memory |-> mem]
       ELSE [exc |-> None, val |-> value, key |-> key, ran |-> TRUE,
             memory |-> [dirs |-> mem.dirs \cup {location},
                         store |-> WriteFile(mem.store, key, value)]]

\* mutant: only an absent project_id is refused, `if project_id is None`
kili_project_memoizer_none_only(sub_dir, some_function, call_args, kwargs, mem, t) ==
    LET project_id == kwargs_get_project_id(kwargs)
    IN IF project_id = Absent
       THEN [exc |-> "ValueError", val |-> None, key |-> None, ran |-> FALSE, memory |-> mem]
       ELSE memory_cache(Path_cache(project_id[1], sub_dir), some_function, call_args,
                         kwargs, mem, t)

\* the wrapper kili_project_memoizer(sub_dir) puts around some_function
kili_project_memoizer(sub_dir, some_function, call_args, kwargs, mem, t) ==
    LET project_id == kwargs_get_project_id(kwargs)
    IN IF project_id = Absent \/ project_id = Some("")
       THEN [exc |-> "ValueError", val |-> None, key |-> None, ran |-> FALSE, memory |-> mem]
       ELSE memory_cache(Path_cache(project_id[1], sub_dir), some_function, call_args,
                         kwargs, mem, t)

\* the wrapper kili_memoizer puts around some_function
kili_memoizer(some_function, call_args, kwargs, mem, t) ==
    memory_cache(<< HOME >>, some_function, call_args, kwargs, mem, t)

\* mutant: the directory removed is the parent of cache_path, every
\* sub-directory of the project's cache together with every other project's
RmtreeCache_parent(mem, cache_path) ==
    [dirs |-> { d \in mem.dirs : Len(d) < Len(cache_path) },
     store |-> [k \in { e \in DOMAIN mem.store : Len(e.location) < Len(cache_path) }
                   |-> mem.store[k]]]

\* shutil.rmtree(cache_path) when os.path.exists(cache_path): a joblib directory
RmtreeCache(mem, cache_path) ==
    [dirs |-> mem.dirs \ {cache_path},
     store |-> [k \in { e \in DOMAIN mem.store : e.location # cache_path } |-> mem.store[k]]]

\* shutil.rmtree(folder) when it exists: a job's model folder of one framework
RmtreeModels(ms, folder) ==
    [p \in { q \in DOMAIN ms : ~(q.path = folder.path /\ q.framework = folder.framework) }
        |-> ms[p]]

RECURSIVE RmtreeCaches(_, _, _)
RmtreeCaches(mem, cache_paths, i) ==
    IF i > Len(cache_paths) THEN mem
    ELSE RmtreeCaches(RmtreeCache(mem, cache_paths[i]), cache_paths, i + 1)

\* the loop `for model_repository in model_repositories` from its i-th element
RECURSIVE ClearLoop(_, _, _, _, _, _, _, _)
ClearLoop(project_id, command, job_name, model_repositories, i, cache_paths, mem, ms) ==
    IF i > Len(model_repositories)
    THEN [exc |-> None, memory |-> mem, models |-> ms]
    ELSE IF command = "train" /\ job_name = Absent
    THEN [exc |-> "AssertionError", memory |-> mem, models |-> ms]
    ELSE LET ms1 == IF command = "train"
                    THEN RmtreeModels(ms, Path_append_hf_model_folder(
                             Path_model_repository(HOME, project_id, job_name[1],
                                                   model_repositories[i]), PyTorch))
                    ELSE ms
         IN ClearLoop(project_id, command, job_name, model_repositories, i + 1,
                      cache_paths, RmtreeCaches(mem, cache_paths, 1), ms1)

\* mutant: the command train clears the model folders only
clear_automl_cache_models_only(project_id, command, model_repository, job_name, mem, ms) ==
    IF command \notin {"train", "prioritize"}
    THEN [exc |-> "ValueError", memory |-> mem, models |-> ms]
    ELSE LET sub_dirs == IF command = "train" THEN << >> ELSE << "get_asset_memoized" >>
             cache_paths == [i \in 1..Len(sub_dirs) |-> Path_cache(project_id, sub_dirs[i])]
             model_repositories == IF model_repository = Absent THEN ModelRepositories
                                   ELSE << model_repository[1] >>
         IN ClearLoop(project_id, command, job_name, model_repositories, 1,
                      cache_paths, mem, ms)

\* mutant: without a repository the call acts on the first known one only
clear_automl_cache_first_repository(project_id, command, model_repository, job_name, mem, ms) ==
    IF command \notin {"train", "prioritize"}
    THEN [exc |-> "ValueError", memory |-> mem, models |-> ms]
    ELSE LET sub_dirs == << "get_asset_memoized" >>
             cache_paths == [i \in 1..Len(sub_dirs) |-> Path_cache(project_id, sub_dirs[i])]
             model_repositories == IF model_repository = Absent
                                   THEN << ModelRepositories[1] >>
                                   ELSE << model_repository[1] >>
         IN ClearLoop(project_id, command, job_name, model_repositories, 1,
                      cache_paths, mem, ms)

clear_automl_cache(project_id, command, model_repository, job_name, mem, ms) ==
    IF command \notin {"train", "prioritize"}
    THEN [exc |-> "ValueError", memory |-> mem, models |-> ms]
    ELSE LET sub_dirs == << "get_asset_memoized" >>
             cache_paths == [i \in 1..Len(sub_dirs) |-> Path_cache(project_id, sub_dirs[i])]
             model_repositories == IF model_repository = Absent THEN ModelRepositories
                                   ELSE << model_repository[1] >>
         IN ClearLoop(project_id, command, job_name, model_repositories, 1,
                      cache_paths, mem, ms)

(***************************************************************************)
(* The inputs of main: the command line, the project, its jobs, its assets.*)
(***************************************************************************)
ProjectId == "project1"

\* jobs.items(): the names of the project's jobs, in the listing's order
JobNames == << "job1", "job2" >>

JobCategories == << "c0", "c1" >>

\* the values of --json-args: none, no text, a truncated object, an object
JsonArgs ==
    { Absent, Some(<< >>), Some(<< "{" >>),
      Some(<< "{", QUOTE, "e", "p", "o", "c", "h", "s", QUOTE, ":", " ", "1", "}" >>) }

\* the command lines: every choice of framework, name and repository without
\* --json-args, and every value of --json-args with the other options left out
Options ==
    [model_framework : {None, PyTorch, Tensorflow, "jax"},
     model_name : {None, BertBaseMultilingualCased, DistilbertBaseCased, YoloV5},
     model_repository : {None, HuggingFace, Ultralytics},
     project_id : {ProjectId},
     max_assets : {Absent, Some(0)},
     json_args : {Absent},
     clear_dataset_cache : BOOLEAN]
    \cup [model_framework : {None},
          model_name : {None},
          model_repository : {None},
          project_id : {ProjectId},
          max_assets : {Absent, Some(-1)},
          json_args : JsonArgs,
          clear_dataset_cache : {FALSE}]

Jobs ==
    [content_input : {Radio, "checkbox"},
     mlTask : {Classification, NamedEntitiesRecognition, ObjectDetection},
     tools : {Absent, Some({}), Some({"polygon"}), Some({Rectangle})},
     categories : {JobCategories}]

\* the command lines and the jobs of the repeated runs
RerunOptions ==
    { o \in Options : /\ o.model_framework \in {None, Tensorflow}
                      /\ o.model_name = None
                      /\ o.model_repository = None
                      /\ o.max_assets = Absent
                      /\ o.json_args = Absent }

RerunJobs ==
    { j \in Jobs : j.content_input = Radio /\ j.tools = Some({Rectangle}) }

\* an asset of the project, with the name of the first category of its first
\* label for the job at hand
Assets == [content : Urls, category : {"c0", "c1", "c9"}]

\* all the lists of at most n elements of S
RECURSIVE ListsUpTo(_, _)
ListsUpTo(S, n) ==
    IF n = 0 THEN {<< >>}
    ELSE LET shorter == ListsUpTo(S, n - 1)
         IN shorter \cup { Append(l, x) : l \in shorter, x \in S }

\* get_assets(kili, project_id, ...) as the driver's runs see it
ProjectAssets ==
    { << >>,
      << [content |-> "url_a", category |-> "c1"] >>,
      << [content |-> "url_a", category |-> "c9"] >>,
      << [content |-> "url_down", category |-> "c0"] >> }

RerunAssets == { l \in ProjectAssets : Len(l) = 1 /\ l[1].content = "url_a" }

NoIteration ==
    [job_name |-> None, job |-> None, adapters |-> << >>, exc |-> None,
     loss |-> None, backend |-> FALSE, trained |-> FALSE,
     resolved |-> << None, None, None >>]

NoOptions ==
    [model_framework |-> None, model_name |-> None, model_repository |-> None,
     project_id |-> ProjectId, max_assets |-> Absent, json_args |-> Absent,
     clear_dataset_cache |-> FALSE]


InitMain ==
    /\ pc = "idle"
    /\ input_type = Text
    /\ opts = NoOptions
    /\ idx = 0
    /\ training_losses = << >>
    /\ error = None
    /\ last = NoIteration
    /\ datasets = EmptyDisk
    /\ models = EmptyDisk
    /\ now = 0
    /\ runs = 0

mainVars == << pc, input_type, opts, idx, training_losses, error, last, datasets, models, now, runs >>

\* main is started: the options are parsed, get_project returns
MainStart(OptionSet, max_runs) ==
    /\ pc \in {"idle", "done", "crashed"}
    /\ runs < max_runs
    /\ \E o \in OptionSet, t \in {Text, Image} :
          /\ opts' = o
          /\ input_type' = t
    /\ pc' = "loop"
    /\ idx' = 0
    /\ training_losses' = << >>
    /\ error' = None
    /\ last' = NoIteration
    /\ runs' = runs + 1
    /\ UNCHANGED << datasets, models, now >>

\* mutant: the entry is put at the head of the report
MainLoop_prepend(JobSet, AssetLists) ==
    /\ pc = "loop"
    /\ idx < Len(JobNames)
    /\ \E job \in JobSet, assets \in AssetLists :
          LET job_name == JobNames[idx + 1]
              it == Iteration(job_name, job, assets, opts, input_type, datasets,
                              models, now)
              training_loss == it.out.val
          IN /\ last' = [job_name |-> job_name, job |-> job, adapters |-> it.adapters,
                         exc |-> it.out.exc, loss |-> training_loss,
                         backend |-> it.out.backend, trained |-> it.out.trained,
                         resolved |-> it.out.resolved]
             /\ datasets' = it.out.datasets
             /\ models' = it.out.models
             /\ IF it.out.exc = None
                THEN /\ training_losses' = << << job_name, training_loss >> >> \o training_losses
                     /\ idx' = idx + 1
                     /\ UNCHANGED << pc, error >>
                ELSE /\ pc' = "crashed"
                     /\ error' = it.out.exc
                     /\ UNCHANGED << training_losses, idx >>
    /\ UNCHANGED << input_type, opts, now, runs >>

\* mutant: the loop body catches the adapter's exception and records null
MainLoop_swallow(JobSet, AssetLists) ==
    /\ pc = "loop"
    /\ idx < Len(JobNames)
    /\ \E job \in JobSet, assets \in AssetLists :
          LET job_name == JobNames[idx + 1]
              it == Iteration(job_name, job, assets, opts, input_type, datasets,
                              models, now)
              training_loss == it.out.val
          IN /\ last' = [job_name |-> job_name, job |-> job, adapters |-> it.adapters,
                         exc |-> it.out.exc, loss |-> training_loss,
                         backend |-> it.out.backend, trained |-> it.out.trained,
                         resolved |-> it.out.resolved]
             /\ datasets' = it.out.datasets
             /\ models' = it.out.models
             /\ IF it.out.exc = None
                THEN /\ training_losses' = Append(training_losses, << job_name, training_loss >>)
                     /\ idx' = idx + 1
                     /\ UNCHANGED << pc, error >>
                ELSE /\ training_losses' = Append(training_losses, << job_name, None >>)
                     /\ idx' = idx + 1
                     /\ UNCHANGED << pc, error >>
    /\ UNCHANGED << input_type, opts, now, runs >>

\* one iteration of `for job_name, job in jobs.items()`
MainLoop(JobSet, AssetLists) ==
    /\ pc = "loop"
    /\ idx < Len(JobNames)
    /\ \E job \in JobSet, assets \in AssetLists :
          LET job_name == JobNames[idx + 1]
              it == Iteration(job_name, job, assets, opts, input_type, datasets,
                              models, now)
              training_loss == it.out.val
          IN /\ last' = [job_name |-> job_name, job |-> job, adapters |-> it.adapters,
                         exc |-> it.out.exc, loss |-> training_loss,
                         backend |-> it.out.backend, trained |-> it.out.trained,
                         resolved |-> it.out.resolved]
             /\ datasets' = it.out.datasets
             /\ models' = it.out.models
             /\ IF it.out.exc = None
                THEN /\ training_losses' = Append(training_losses, << job_name, training_loss >>)
                     /\ idx' = idx + 1
                     /\ UNCHANGED << pc, error >>
                ELSE /\ pc' = "crashed"
                     /\ error' = it.out.exc
                     /\ UNCHANGED << training_losses, idx >>
    /\ UNCHANGED << input_type, opts, now, runs >>

\* the loop is over: print(tabulate(training_losses, ...))
MainFinish ==
    /\ pc = "loop"
    /\ idx = Len(JobNames)
    /\ pc' = "done"
    /\ UNCHANGED << input_type, opts, idx, training_losses, error, last, datasets, models, now, runs >>

\* a second of wall clock passes
Tick ==
    /\ now < MaxTime
    /\ now' = now + 1
    /\ UNCHANGED << pc, input_type, opts, idx, training_losses, error, last, datasets, models, runs >>

NoMemoCall ==
    [kind |-> None, key |-> None, exc |-> None, val |-> None, ran |-> FALSE,
     pending |-> FALSE, input |-> None]

memoVars == << memory, executed, lastcall, calls >>

InitMemo ==
    /\ memory = [dirs |-> {}, store |-> EmptyDisk]
    /\ executed = [results |-> EmptyDisk, pending |-> {}]
    /\ lastcall = NoMemoCall
    /\ calls = 0

checkVars == << args, result >>

InitCheck ==
    /\ args = << >>
    /\ result = << >>

Init == InitMain /\ InitMemo /\ InitCheck

\* one run of main, on any command line and any project
Next ==
    \/ MainStart(Options, 1) /\ UNCHANGED << memoVars, checkVars >>
    \/ MainLoop(Jobs, ProjectAssets) /\ UNCHANGED << memoVars, checkVars >>
    \/ MainFinish /\ UNCHANGED << memoVars, checkVars >>

Spec == Init /\ [][Next]_vars

\* runs of main one after the other on the same disk, while the clock advances
NextRuns ==
    \/ MainStart(RerunOptions, MaxRuns) /\ UNCHANGED << memoVars, checkVars >>
    \/ MainLoop(RerunJobs, RerunAssets) /\ UNCHANGED << memoVars, checkVars >>
    \/ MainFinish /\ UNCHANGED << memoVars, checkVars >>
    \/ Tick /\ UNCHANGED << memoVars, checkVars >>

SpecRuns == Init /\ [][NextRuns]_vars

(***************************************************************************)
(* The memoization layer at work: memoized calls and invalidations, in any *)
(* order, while the platform's answers change with time.                   *)
(***************************************************************************)
\* @kili_project_memoizer(sub_dir="get_asset_memoized") def get_asset_memoized
get_asset_memoized == "get_asset_memoized"

\* @kili_memoizer def download_image
download_image == "download_image"

\* the calls of get_asset_memoized: project_id by keyword, by position, empty
ProjectCalls ==
    [args : {<< >>}, kwargs : [project_id : {Some("project1"), Some("project2")}, skip : {0, 1}]]
    \cup { [args |-> << "project1" >>, kwargs |-> [project_id |-> Absent, skip |-> 0]],
           [args |-> << >>, kwargs |-> [project_id |-> Some(""), skip |-> 0]] }

GlobalCalls ==
    [args : {<< "url_a" >>, << "url_b" >>}, kwargs : {[project_id |-> Absent, skip |-> 0]}]

\* the keys a project's memoized calls are stored under
KeysOfProject(store, project_id) ==
    { k \in DOMAIN store : k.func = get_asset_memoized /\ k.kwargs.project_id = Some(project_id) }

Without(f, keys) == [k \in DOMAIN f \ keys |-> f[k]]

\* the history after a memoized call that returned r
Recorded(r) ==
    [results |-> IF r.ran
                 THEN WriteFile(executed.results, r.key,
                                IF r.key \in DOMAIN executed.results
                                THEN Append(executed.results[r.key], r.val)
                                ELSE << r.val >>)
                 ELSE executed.results,
     pending |-> executed.pending \ {r.key}]

Called(kind, c, r) ==
    /\ memory' = r.memory
    /\ executed' = IF r.exc = None THEN Recorded(r) ELSE executed
    /\ lastcall' = [kind |-> kind, key |-> r.key, exc |-> r.exc, val |-> r.val,
                    ran |-> r.ran, pending |-> r.exc = None /\ r.key \in executed.pending,
                    input |-> c]
    /\ calls' = calls + 1

\* get_asset_memoized(*args, **kwargs)
ProjectCall ==
    /\ calls < MaxCalls
    /\ \E c \in ProjectCalls :
          Called("project", c,
                 kili_project_memoizer(get_asset_memoized, get_asset_memoized, c.args,
                                       c.kwargs, memory, now))
    /\ UNCHANGED models

\* download_image(*args, **kwargs)
GlobalCall ==
    /\ calls < MaxCalls
    /\ \E c \in GlobalCalls :
          Called("global", c, kili_memoizer(download_image, c.args, c.kwargs, memory, now))
    /\ UNCHANGED models

\* clear_automl_cache(project_id, command, model_repository, job_name)
ClearCache ==
    /\ calls < MaxCalls
    /\ \E project_id \in {"project1", "project2"},
          command \in {"train", "prioritize", "predict"},
          model_repository \in {Absent, Some(HuggingFace), Some(Ultralytics)},
          job_name \in {Absent, Some("job1")} :
          LET r == clear_automl_cache(project_id, command, model_repository, job_name,
                                      memory, models)
              gone == KeysOfProject(memory.store, project_id)
          IN /\ memory' = r.memory
             /\ models' = r.models
             /\ executed' = IF r.exc = None
                            THEN [results |-> Without(executed.results, gone),
                                  pending |-> IF command = "train"
                                              THEN executed.pending \cup gone
                                              ELSE executed.pending]
                            ELSE executed
             /\ lastcall' = [kind |-> "clear", key |-> None, exc |-> r.exc, val |-> None,
                             ran |-> FALSE, pending |-> FALSE,
                             input |-> << project_id, command, model_repository, job_name >>]
    /\ calls' = calls + 1

\* a second passes
MemoTick ==
    /\ now < MaxTime
    /\ now' = now + 1
    /\ UNCHANGED << memory, executed, lastcall, calls, models >>

NextMemo ==
    \/ ProjectCall /\ UNCHANGED << pc, input_type, opts, idx, training_losses, error, last, datasets, now, runs, checkVars >>
    \/ GlobalCall /\ UNCHANGED << pc, input_type, opts, idx, training_losses, error, last, datasets, now, runs, checkVars >>
    \/ ClearCache /\ UNCHANGED << pc, input_type, opts, idx, training_losses, error, last, datasets, now, runs, checkVars >>
    \/ MemoTick /\ UNCHANGED << pc, input_type, opts, idx, training_losses, error, last, datasets, runs, checkVars >>

SpecMemo == Init /\ [][NextMemo]_vars

(***************************************************************************)
(* The dispatcher's decision table and the resolver's contract, as the     *)
(* specification states them.                                              *)
(***************************************************************************)
HasRectangle(job) == job.tools # Absent /\ Rectangle \in job.tools[1]

\* the adapter the decision table names for a job, None for the unlisted ones
TableRow(job, project_input_type) ==
    IF job.content_input = Radio /\ project_input_type = Text /\ job.mlTask = Classification
    THEN "train_text_classification_single"
    ELSE IF job.content_input = Radio /\ project_input_type = Text
            /\ job.mlTask = NamedEntitiesRecognition
    THEN "train_ner"
    ELSE IF job.content_input = Radio /\ project_input_type = Image
            /\ job.mlTask = ObjectDetection /\ HasRectangle(job)
    THEN "train_image_bounding_box"
    ELSE None

Iterated == last.job_name # None

NullResult ==
    /\ last.adapters = << >>
    /\ last.loss = None
    /\ last.exc = None
    /\ training_losses # << >>
    /\ training_losses[Len(training_losses)] = << last.job_name, None >>

\* C1: every job the loop processes invokes exactly the adapter its row of the
\* decision table names, and a job of no row invokes none, gets a null result
\* and raises nothing.
C1_DispatchFollowsTable ==
    Iterated =>
        IF TableRow(last.job, input_type) # None
        THEN last.adapters = << TableRow(last.job, input_type) >>
        ELSE NullResult

\* C2: an object-detection job whose tools do not contain rectangle (an empty
\* set, other tools, or no tools field at all) gets a null result, invokes no
\* adapter and raises nothing.
C2_NoRectangleGivesNull ==
    ( /\ Iterated
      /\ last.job.content_input = Radio
      /\ input_type = Image
      /\ last.job.mlTask = ObjectDetection
      /\ ~HasRectangle(last.job) ) => NullResult

\* what the resolver must produce: the fallback for an unset value, the value
\* itself when allowed, "rejected" otherwise
Resolved(value, fallback, allowed) ==
    IF value = None THEN fallback
    ELSE IF value \in allowed THEN value
    ELSE "rejected"

ResolvedChoices(adapter, o) ==
    IF adapter = "train_image_bounding_box"
    THEN << Resolved(o.model_repository, Ultralytics, {Ultralytics}),
            Resolved(o.model_framework, PyTorch, {PyTorch}),
            Resolved(o.model_name, YoloV5, {YoloV5}) >>
    ELSE << Resolved(o.model_repository, HuggingFace, {HuggingFace}),
            Resolved(o.model_framework, PyTorch, {PyTorch, Tensorflow}),
            Resolved(o.model_name, BertBaseMultilingualCased,
                     IF adapter = "train_ner"
                     THEN {BertBaseMultilingualCased, DistilbertBaseCased}
                     ELSE {BertBaseMultilingualCased}) >>

\* C3: every adapter resolves repository, framework and model name before its
\* backend is called: unset gives the adapter's fallback, an allowed value is
\* kept, and a value outside the allow-list raises UnsupportedChoice and the
\* backend is never called.
C3_AdaptersResolveFirst ==
    (Iterated /\ last.adapters # << >>) =>
        LET want == ResolvedChoices(last.adapters[1], opts)
        IN IF "rejected" \in Range(want)
           THEN last.exc = "UnsupportedChoice" /\ ~last.backend /\ ~last.trained
           ELSE last.backend /\ last.resolved = want /\ last.exc # "UnsupportedChoice"

\* C3, witness: the NER adapter kept an allowed model name and filled in the
\* unset repository and framework
C3_Witness_Resolved ==
    /\ last.adapters = << "train_ner" >>
    /\ opts.model_name = DistilbertBaseCased
    /\ opts.model_repository = None
    /\ opts.model_framework = None
    /\ last.backend
    /\ last.resolved = << HuggingFace, PyTorch, DistilbertBaseCased >>

(***************************************************************************)
(* Model paths over repeated runs.                                         *)
(***************************************************************************)
\* C8 as stated: no model path ever receives the weights of two runs.
C8_NoModelPathReused ==
    \A p \in DOMAIN models : Len(models[p]) <= 1

\* C8 amended: every save into a model path was made at a clock reading whose
\* second is the path's timestamp, so two runs share a model path only when
\* they agree on repository path, framework and the second they read.
C8_SamePathOnlyInSameSecond ==
    \A p \in DOMAIN models :
        \A i \in 1..Len(models[p]) :
            /\ strftime(datetime_now(models[p][i])) = p.stamp
            /\ models[p][i] = models[p][1]

\* C8, witness: the same job and framework trained at two different seconds,
\* into two different model paths
C8_Witness_TwoSeconds ==
    \E p, q \in DOMAIN models :
        /\ p.path = q.path
        /\ p.framework = q.framework
        /\ models[p][1] # models[q][1]
        /\ p # q

(***************************************************************************)
(* The guard on the dataset file.                                          *)
(***************************************************************************)
\* a step of the loop that entered the backend of a Hugging Face adapter
HuggingFaceStep ==
    /\ pc = "loop"
    /\ idx < Len(JobNames)
    /\ now' = now
    /\ last'.backend
    /\ last'.adapters[1] \in {"train_text_classification_single", "train_ner"}

DatasetOf(job_name) ==
    path_dataset(build_model_repository_path(HOME, ProjectId, job_name, HuggingFace))

\* C9: with a dataset file in place and clear_dataset_cache false the adapter
\* raises DatasetAlreadyExists (FileExistsError), leaves the disk as it is and
\* never trains; with the flag set it never raises that error; and every run
\* that enters the backend leaves a dataset file behind, so that the next run
\* without the flag fails.
C9_DatasetGuard ==
    [][ HuggingFaceStep =>
          LET pd == DatasetOf(last'.job_name)
          IN /\ (pd \in DOMAIN datasets /\ ~opts.clear_dataset_cache) =>
                    /\ last'.exc = "FileExistsError"
                    /\ datasets' = datasets
                    /\ models' = models
                    /\ ~last'.trained
             /\ (pd \notin DOMAIN datasets \/ opts.clear_dataset_cache) =>
                    last'.exc # "FileExistsError"
             /\ pd \in DOMAIN datasets' ]_vars

\* C9, witness: the second of two runs without the flag failed on the dataset
\* the first one wrote
C9_Witness_SecondRunFails ==
    /\ runs = 2
    /\ ~opts.clear_dataset_cache
    /\ last.adapters = << "train_text_classification_single" >>
    /\ last.exc = "FileExistsError"
    /\ DatasetOf(last.job_name) \in DOMAIN datasets

(***************************************************************************)
(* The model path builder on two start times.                              *)
(***************************************************************************)
DateTimes ==
    [Y : {2022, 2023}, M : 9..StampHigh, D : 9..StampHigh, h : 9..StampHigh,
     m : 9..StampHigh, s : {0, 59}]

InitPath ==
    /\ InitMain
    /\ InitMemo
    /\ result = << >>
    /\ \E framework \in {PyTorch, Tensorflow}, first \in DateTimes, second \in DateTimes :
          args = << [path |-> build_model_repository_path(HOME, ProjectId, "job1", HuggingFace),
                     framework |-> framework, first |-> first, second |-> second] >>

\* two runs build their model paths, at the two start times
BuildModelPaths ==
    /\ result = << >>
    /\ result' = << path_model(args[1].path, args[1].framework, args[1].first),
                    path_model(args[1].path, args[1].framework, args[1].second) >>
    /\ UNCHANGED << args, mainVars, memoVars >>

SpecPath == InitPath /\ [][BuildModelPaths]_vars

\* str < str on two model paths of the same repository path and framework: the
\* first character that differs is in the timestamp
ModelPathLess(p, q) ==
    /\ p.path = q.path
    /\ p.framework = q.framework
    /\ StrLess(p.stamp, q.stamp)

\* C7: for the same root, project, job, repository and framework, two start
\* times at least one minute apart give two distinct model paths, and the later
\* run's path is lexicographically greater.
C7_LaterRunSortsAfter ==
    (result # << >> /\ ToSeconds(args[1].second) - ToSeconds(args[1].first) >= 60) =>
        /\ result[1] # result[2]
        /\ ModelPathLess(result[1], result[2])
        /\ ~ModelPathLess(result[2], result[1])

\* C7, witness: the two runs are a month apart, across the change from a one
\* digit to a two digit month
C7_Witness_MonthRollover ==
    /\ result # << >>
    /\ ToSeconds(args[1].second) - ToSeconds(args[1].first) >= 60
    /\ args[1].first.M = 9
    /\ args[1].second.M = 10
    /\ args[1].first.D > args[1].second.D

(***************************************************************************)
(* The dataset file of the text classification backend.                    *)
(***************************************************************************)
DatasetJobPath == build_model_repository_path(HOME, ProjectId, "job1", HuggingFace)

InitDataset ==
    /\ InitMain
    /\ InitMemo
    /\ result = << >>
    /\ \E assets \in ListsUpTo(Assets, MaxLines),
          categories \in {<< "c0", "c1" >>, << "c1", "c0" >>},
          clear_dataset_cache \in BOOLEAN, existing \in BOOLEAN :
          args = << [assets |-> assets, categories |-> categories,
                     clear_dataset_cache |-> clear_dataset_cache, existing |-> existing] >>

\* huggingface_train_text_classification_single runs on the inputs
WriteDataset ==
    /\ result = << >>
    /\ LET a == args[1]
           job == [content_input |-> Radio, mlTask |-> Classification, tools |-> Absent,
                   categories |-> a.categories]
           disk == IF a.existing
                   THEN WriteFile(EmptyDisk, path_dataset(DatasetJobPath), << "s", NL >>)
                   ELSE EmptyDisk
       IN result' = << huggingface_train_text_classification_single(
                          a.assets, job, "job1", PyTorch, BertBaseMultilingualCased,
                          DatasetJobPath, a.clear_dataset_cache, disk, EmptyDisk, 0) >>
    /\ UNCHANGED << args, mainVars, memoVars >>

SpecDataset == InitDataset /\ [][WriteDataset]_vars

\* the lines of a file: the characters before each line feed, and what follows
\* the last one when that is not empty
RECURSIVE SplitLines(_, _, _)
SplitLines(content, i, line) ==
    IF i > Len(content) THEN (IF line = << >> THEN << >> ELSE << line >>)
    ELSE LET feeds == { k \in i..Len(content) : content[k] = NL }
             end == IF feeds = {} THEN Len(content) + 1
                    ELSE CHOOSE k \in feeds : \A j \in feeds : k <= j
         IN IF feeds = {} THEN << line \o SubSeq(content, i, Len(content)) >>
            ELSE << line \o SubSeq(content, i, end - 1) >> \o SplitLines(content, end + 1, << >>)

NotJson == [ok |-> FALSE, text |-> << >>, label |-> -1]

\* json.loads of one line, for an object with the fields text and label
json_loads(line) ==
    LET text_key == << "{", QUOTE, "t", "e", "x", "t", QUOTE, ":", " ", QUOTE >>
        label_key == << ",", " ", QUOTE, "l", "a", "b", "e", "l", QUOTE, ":", " " >>
        text == ScanString(line, Len(text_key) + 1, << >>)
        label == ScanInt(line, text.next + Len(label_key), 0, FALSE)
    IN IF ~StartsWith(line, 1, text_key) \/ ~text.ok THEN NotJson
       ELSE IF ~StartsWith(line, text.next, label_key) \/ ~label.ok THEN NotJson
       ELSE IF label.next # Len(line) \/ line[label.next] # "}" THEN NotJson
       ELSE [ok |-> TRUE, text |-> text.val, label |-> label.val]

\* every asset can be downloaded and carries a category of the job
Labeled(assets, categories) ==
    \A i \in 1..Len(assets) :
        /\ requests_get(assets[i].content).exc = None
        /\ assets[i].category \in Range(categories)

\* C10: given N labeled assets (and no stale dataset in the way) the adapter
\* writes a file of exactly N lines, the i-th the JSON object of the i-th asset:
\* its text, and the position of its category in the job's category list.
C10_DatasetLines ==
    ( /\ result # << >>
      /\ Labeled(args[1].assets, args[1].categories)
      /\ (args[1].clear_dataset_cache \/ ~args[1].existing) ) =>
        LET assets == args[1].assets
            pd == path_dataset(DatasetJobPath)
            lines == SplitLines(result[1].datasets[pd], 1, << >>)
        IN /\ result[1].exc = None
           /\ Len(lines) = Len(assets)
           /\ \A i \in 1..Len(assets) :
                 LET object == json_loads(lines[i])
                 IN /\ object.ok
                    /\ object.text = requests_get(assets[i].content).val
                    /\ object.label \in 0..(Len(args[1].categories) - 1)
                    /\ args[1].categories[object.label + 1] = assets[i].category

\* C10, witness: two assets, of the second and the first category, one with a
\* line feed in its text, written over a cleared dataset
C10_Witness_TwoLines ==
    /\ result # << >>
    /\ Len(args[1].assets) = 2
    /\ args[1].assets[1].content = "url_nl"
    /\ args[1].assets[1].category = args[1].categories[2]
    /\ args[1].assets[2].category = args[1].categories[1]
    /\ args[1].existing
    /\ result[1].exc = None
    /\ Len(SplitLines(result[1].datasets[path_dataset(DatasetJobPath)], 1, << >>)) = 2

(***************************************************************************)
(* The memoization layer's contract.                                       *)
(***************************************************************************)
\* C4: between two invalidations the wrapped function is executed once per
\* (function, arguments), and every call returns the result of that execution.
C4_ExecutedOncePerArguments ==
    /\ \A k \in DOMAIN executed.results : Len(executed.results[k]) = 1
    /\ (lastcall.kind \in {"project", "global"} /\ lastcall.exc = None) =>
           /\ lastcall.key \in DOMAIN executed.results
           /\ lastcall.val = executed.results[lastcall.key][1]

\* C4, witness: a project memoized call was served the result stored by an
\* earlier call, after the platform's answer had changed
C4_Witness_CacheHit ==
    /\ lastcall.kind = "project"
    /\ lastcall.exc = None
    /\ ~lastcall.ran
    /\ lastcall.val.at # now

\* C5: after clear_automl_cache(project_id, "train", ...) has completed, the next
\* project memoized call of that project with arguments cached before is a
\* miss: the wrapped function is executed again.
C5_MissAfterInvalidation ==
    (lastcall.kind = "project" /\ lastcall.pending) => lastcall.ran

\* C5, witness: such a call happened and executed the function at a later time
\* than the invalidated result
C5_Witness_Recomputed ==
    /\ lastcall.kind = "project"
    /\ lastcall.pending
    /\ lastcall.ran
    /\ lastcall.val.at = now
    /\ now > 0

\* a call that does not give a non-empty project_id by keyword
MissingProjectId(input) == input.kwargs.project_id \in {Absent, Some("")}

\* C6: a project memoized call without a non-empty project_id keyword raises
\* MissingProjectId (ValueError) before any cache directory is made or read and
\* without running the function; a call with one never raises it.
C6_ProjectIdRequired ==
    [][ (lastcall'.kind = "project" /\ calls' = calls + 1) =>
          IF MissingProjectId(lastcall'.input)
          THEN /\ lastcall'.exc = "ValueError"
               /\ ~lastcall'.ran
               /\ memory' = memory
               /\ executed' = executed
          ELSE /\ lastcall'.exc = None
               /\ Path_cache(lastcall'.input.kwargs.project_id[1], get_asset_memoized)
                      \in memory'.dirs ]_vars

\* C6, witness: project_id given by position only, and the call was refused
C6_Witness_Positional ==
    /\ lastcall.kind = "project"
    /\ lastcall.input.args = << "project1" >>
    /\ lastcall.exc = "ValueError"
    /\ memory.dirs # {}

(***************************************************************************)
(* train_huggingface.py: tokenize_and_align_labels, the function           *)
(* huggingface_train_ner maps over the NER dataset.  A word of an example  *)
(* is modelled by the number of sub-word pieces the tokenizer splits it in.*)
(***************************************************************************)
RECURSIVE WordPieces(_, _, _)
WordPieces(words, w, acc) ==
    IF w > Len(words) THEN acc
    ELSE WordPieces(words, w + 1, acc \o [p \in 1..words[w] |-> Some(w - 1)])

\* tokenized_inputs.word_ids(batch_index=i): None for the two special tokens
\* around the sentence, the 0-based index of its word for every piece
word_ids(words) == << Absent >> \o WordPieces(words, 1, << >>) \o << Absent >>

label_all_tokens == TRUE

\* the loop `for word_idx in word_ids` from its n-th element
RECURSIVE AlignLoop(_, _, _, _, _)
AlignLoop(ids, label, n, previous_word_idx, label_ids) ==
    IF n > Len(ids) THEN label_ids
    ELSE LET word_idx == ids[n]
             label_id == IF word_idx = Absent THEN -100
                         ELSE IF word_idx # previous_word_idx THEN label[word_idx[1] + 1]
                         ELSE (IF label_all_tokens THEN label[word_idx[1] + 1] ELSE -100)
         IN AlignLoop(ids, label, n + 1, word_idx, Append(label_ids, label_id))

\* tokenized_inputs["labels"] of a batch of examples
tokenize_and_align_labels(examples) ==
    [labels |-> [i \in 1..Len(examples.ner_tags) |->
                    AlignLoop(word_ids(examples.tokens[i]), examples.ner_tags[i], 1,
                              Absent, << >>)]]

\* the examples of a batch: up to MaxTokens words of up to MaxPieces pieces, each
\* with the index of its tag in label_list
AlignWords == ListsUpTo(1..MaxPieces, MaxTokens)

AlignExamples ==
    UNION { [tokens : {words}, ner_tags : [1..Len(words) -> {0, 1}]] : words \in AlignWords }

InitAlign ==
    /\ InitMain
    /\ InitMemo
    /\ result = << >>
    /\ \E e \in AlignExamples, rest \in {<< >>, << [tokens |-> << 2 >>, ner_tags |-> << 1 >>] >>} :
          LET batch == << e >> \o rest
          IN args = << [tokens |-> [i \in 1..Len(batch) |-> batch[i].tokens],
                        ner_tags |-> [i \in 1..Len(batch) |-> batch[i].ner_tags]] >>

\* raw_datasets.map(tokenize_and_align_labels, batched=True) on one batch
AlignLabels ==
    /\ result = << >>
    /\ result' = << tokenize_and_align_labels(args[1]) >>
    /\ UNCHANGED << args, mainVars, memoVars >>

SpecAlign == InitAlign /\ [][AlignLabels]_vars

\* the number of pieces of the words before the j-th
RECURSIVE PiecesBefore(_, _)
PiecesBefore(words, j) ==
    IF j <= 1 THEN 0 ELSE PiecesBefore(words, j - 1) + words[j - 1]

\* the labels emitted for the pieces of the j-th word of the i-th example
EmittedFor(i, j) ==
    LET first == 1 + PiecesBefore(args[1].tokens[i], j) + 1
    IN SubSeq(result[1].labels[i], first, first + args[1].tokens[i][j] - 1)

\* C11: for every token of every example, split into k pieces, the labels
\* emitted for the token are its tag on the first piece followed by k-1 ignore
\* markers (-100) on the continuation pieces.
C11_FirstPieceCarriesLabel ==
    result # << >> =>
        \A i \in 1..Len(args[1].tokens) :
            \A j \in 1..Len(args[1].tokens[i]) :
                EmittedFor(i, j) = << args[1].ner_tags[i][j] >>
                                   \o [p \in 1..(args[1].tokens[i][j] - 1) |-> -100]

(***************************************************************************)
(* The driver and the invalidation of the caches.                          *)
(***************************************************************************)
\* the model folders clear_automl_cache(project_id, "train", model_repository,
\* job_name) removes: the job's pytorch folder in each repository acted on
InvalidatedFolders(project_id, model_repository, job_name) ==
    { Path_append_hf_model_folder(
          Path_model_repository(HOME, project_id, job_name, r), PyTorch) :
      r \in IF model_repository = None THEN Range(ModelRepositories) ELSE {model_repository} }

\* the saved models of a folder
ModelsIn(ms, folder) ==
    { p \in DOMAIN ms : p.path = folder.path /\ p.framework = folder.framework }

\* C12: for every job dispatched with clear_dataset_cache set, the invalidation
\* (clear_automl_cache for the project, command train, the job) has run and
\* completed before the adapter is invoked: when the adapter has returned, the
\* project's asset cache holds nothing, and the job's invalidated model folders
\* hold nothing but the one model this adapter call saved.
C12_InvalidationBeforeDispatch ==
    (pc \in {"loop", "done", "crashed"} /\ last.adapters # << >> /\ opts.clear_dataset_cache) =>
        /\ Path_cache(opts.project_id, "get_asset_memoized") \notin memory.dirs
        /\ \A folder \in InvalidatedFolders(opts.project_id, opts.model_repository,
                                            last.job_name) :
              /\ Cardinality(ModelsIn(models, folder)) <= 1
              /\ \A p \in ModelsIn(models, folder) : Len(models[p]) = 1

(***************************************************************************)
(* clear_automl_cache on a disk that earlier runs and memoized calls left. *)
(***************************************************************************)
\* the model directories earlier runs may have saved: two projects, two jobs,
\* two repositories, two frameworks
SavedModels ==
    { path_model(build_model_repository_path(HOME, m[1], m[2], m[3]), m[4], datetime_now(0)) :
      m \in { << "project1", "job1", HuggingFace, PyTorch >>,
              << "project1", "job1", HuggingFace, Tensorflow >>,
              << "project1", "job1", Ultralytics, PyTorch >>,
              << "project1", "job2", HuggingFace, PyTorch >>,
              << "project2", "job1", HuggingFace, PyTorch >> } }

\* the memoized calls earlier runs may have made
EarlierCalls ==
    << [project |-> TRUE, args |-> << >>, kwargs |-> [project_id |-> Some("project1"), skip |-> 0]],
       [project |-> TRUE, args |-> << >>, kwargs |-> [project_id |-> Some("project2"), skip |-> 0]],
       [project |-> FALSE, args |-> << "url_a" >>, kwargs |-> [project_id |-> Absent, skip |-> 0]] >>

\* the joblib store after those of the earlier calls that are in `made`
RECURSIVE MemoryAfter(_, _, _)
MemoryAfter(made, i, mem) ==
    IF i > Len(EarlierCalls) THEN mem
    ELSE LET c == EarlierCalls[i]
             r == IF c.project
                  THEN kili_project_memoizer(get_asset_memoized, get_asset_memoized,
                                             c.args, c.kwargs, mem, 0)
                  ELSE kili_memoizer(download_image, c.args, c.kwargs, mem, 0)
         IN MemoryAfter(made, i + 1, IF i \in made THEN r.memory ELSE mem)

InitClear ==
    /\ pc = "idle"
    /\ input_type = Text
    /\ opts = NoOptions
    /\ idx = 0
    /\ training_losses = << >>
    /\ error = None
    /\ last = NoIteration
    /\ datasets = EmptyDisk
    /\ now = 0
    /\ runs = 0
    /\ executed = [results |-> EmptyDisk, pending |-> {}]
    /\ lastcall = NoMemoCall
    /\ calls = 0
    /\ result = << >>
    /\ \E saved \in SUBSET SavedModels, made \in SUBSET (1..Len(EarlierCalls)) :
          /\ models = [p \in saved |-> << 0 >>]
          /\ memory = MemoryAfter(made, 1, [dirs |-> {}, store |-> EmptyDisk])
    /\ \E project_id \in {"project1", "project2"},
          command \in {"train", "prioritize", "predict"},
          model_repository \in {Absent, Some(HuggingFace), Some(Ultralytics)},
          job_name \in {Absent, Some("job1")} :
          args = << [project_id |-> project_id, command |-> command,
                     model_repository |-> model_repository, job_name |-> job_name] >>

\* clear_automl_cache(project_id, command, model_repository, job_name); the
\* result keeps the exception and the disk as it was before the call
Clear ==
    /\ result = << >>
    /\ LET a == args[1]
           r == clear_automl_cache(a.project_id, a.command, a.model_repository,
                                   a.job_name, memory, models)
       IN /\ memory' = r.memory
          /\ models' = r.models
          /\ result' = << [exc |-> r.exc, memory |-> memory, models |-> models] >>
    /\ UNCHANGED << args, pc, input_type, opts, idx, training_losses, error, last, datasets, now, runs, executed, lastcall, calls >>

SpecClear == InitClear /\ [][Clear]_vars

\* the paths a call targets: the project's asset cache and, for the command
\* train, the job's pytorch model folder in each repository acted on
TargetedCache(a) == Path_cache(a.project_id, "get_asset_memoized")

TargetedFolders(a) ==
    IF a.command = "train" /\ a.job_name # Absent
    THEN InvalidatedFolders(a.project_id,
                            IF a.model_repository = Absent THEN None
                            ELSE a.model_repository[1],
                            a.job_name[1])
    ELSE {}

\* the entries of a joblib directory
EntriesIn(mem, location) == { k \in DOMAIN mem.store : k.location = location }

\* C14: for the command train (of a job) or prioritize, clear_automl_cache
\* returns without error, whether or not the targeted paths existed, and
\* afterwards the project's asset cache does not exist, nor, for train, the
\* job's model-framework folder in the repository given, or in every known
\* repository when none is given.
C14_TargetsDeleted ==
    (/\ result # << >>
     /\ args[1].command \in {"train", "prioritize"}
     /\ (args[1].command = "train" => args[1].job_name # Absent)) =>
        /\ result[1].exc = None
        /\ TargetedCache(args[1]) \notin memory.dirs
        /\ EntriesIn(memory, TargetedCache(args[1])) = {}
        /\ \A folder \in TargetedFolders(args[1]) : ModelsIn(models, folder) = {}
        /\ args[1].command = "train" =>
              Cardinality(TargetedFolders(args[1])) =
                  IF args[1].model_repository = Absent THEN Len(ModelRepositories) ELSE 1

\* C14, witness: train with no repository given removed the asset cache and the
\* job's models from both repositories; an Ultralytics folder that did not exist
\* is the other case
C14_Witness_EveryRepository ==
    /\ result # << >>
    /\ args[1] = [project_id |-> "project1", command |-> "train",
                  model_repository |-> Absent, job_name |-> Some("job1")]
    /\ result[1].exc = None
    /\ TargetedCache(args[1]) \in result[1].memory.dirs
    /\ \E folder \in TargetedFolders(args[1]) : ModelsIn(result[1].models, folder) # {}
    /\ \E folder \in TargetedFolders(args[1]) : ModelsIn(result[1].models, folder) = {}
    /\ models # result[1].models
    /\ memory # result[1].memory

(***************************************************************************)
(* kiliautoml/mixins/_hugging_face_mixin.py: _extract_model_info.  A path  *)
(* is the sequence of its segments, the strings between the separators:    *)
(* "/a/b/" is << "", "a", "b", "" >>.                                      *)
(***************************************************************************)
\* HuggingFaceMixin.model_repository
cls_model_repository == "huggingface"

\* os.path.join(path, "model", model_framework, <timestamp>)
os_path_join_model(path, model_framework, stamp) == path \o << "model", model_framework, stamp >>

\* the loop of os.path.normpath over the segments: empty segments and "." are
\* dropped, ".." removes the segment before it; initial_slashes is the number
\* of separators the result starts with
RECURSIVE NormLoop(_, _, _, _)
NormLoop(comps, i, initial_slashes, new_comps) ==
    IF i > Len(comps) THEN new_comps
    ELSE LET comp == comps[i]
         IN IF comp = "" \/ comp = "."
            THEN NormLoop(comps, i + 1, initial_slashes, new_comps)
            ELSE IF \/ comp # ".."
                    \/ (initial_slashes = 0 /\ new_comps = << >>)
                    \/ (new_comps # << >> /\ new_comps[Len(new_comps)] = "..")
            THEN NormLoop(comps, i + 1, initial_slashes, Append(new_comps, comp))
            ELSE IF new_comps # << >>
            THEN NormLoop(comps, i + 1, initial_slashes,
                          SubSeq(new_comps, 1, Len(new_comps) - 1))
            ELSE NormLoop(comps, i + 1, initial_slashes, new_comps)

\* os.path.normpath(p).split(os.path.sep)
normpath_split(p) ==
    LET LeadingEmpty(k) == Len(p) > k /\ \A i \in 1..k : p[i] = ""
        initial_slashes == IF ~LeadingEmpty(1) THEN 0
                           ELSE IF LeadingEmpty(2) /\ ~LeadingEmpty(3) THEN 2
                           ELSE 1
        comps == NormLoop(p, 1, initial_slashes, << >>)
        slashes == [i \in 1..initial_slashes |-> ""]
    IN IF initial_slashes > 0 THEN (IF comps = << >> THEN slashes \o << "" >> ELSE slashes \o comps)
       ELSE IF comps = << >> THEN << "." >> ELSE comps

\* kiliautoml.utils.helpers.get_last_trained_model_path: the path given, or the
\* latest model directory of the job that holds the weights file (`found` is
\* what the search of the disk comes up with)
get_last_trained_model_path(job_name, project_id, model_path, found) ==
    IF model_path # Absent THEN Return(model_path[1])
    ELSE IF found = Absent THEN Raise("Exception")
    ELSE Return(found[1])

\* mutant: the path returned is the normalised one
extract_model_info_normalised(job_name, project_id, model_path, found) ==
    LET model_path_res == get_last_trained_model_path(job_name, project_id, model_path, found)
        split_path == normpath_split(model_path_res.val)
        n == Len(split_path)
    IN IF model_path_res.exc # None THEN model_path_res
       ELSE IF n < 4 THEN Raise("IndexError")
       ELSE IF split_path[n - 3] # cls_model_repository THEN Raise("ValueError")
       ELSE IF split_path[n - 1] \in {PyTorch, Tensorflow}
       THEN Return(<< split_path, cls_model_repository, split_path[n - 1] >>)
       ELSE Raise("ValueError")

_extract_model_info(job_name, project_id, model_path, found) ==
    LET model_path_res == get_last_trained_model_path(job_name, project_id, model_path, found)
        split_path == normpath_split(model_path_res.val)
        n == Len(split_path)
    IN IF model_path_res.exc # None THEN model_path_res
       ELSE IF n < 4 THEN Raise("IndexError")
       ELSE IF split_path[n - 3] # cls_model_repository THEN Raise("ValueError")
       ELSE IF split_path[n - 1] \in {PyTorch, Tensorflow}
       THEN Return(<< model_path_res.val, cls_model_repository, split_path[n - 1] >>)
       ELSE Raise("ValueError")

\* a timestamp directory
Stamp == "2022-09-30 23:59:58"

\* model directories laid out <root>/<model_repository>/<project_id>/<job_name>/
\* model/<framework>/<timestamp>
SchemeLayout ==
    { os_path_join_model(build_model_repository_path(HOME, ProjectId, j, r), f, Stamp) :
      j \in {"job1", "huggingface"}, r \in {HuggingFace, Ultralytics},
      f \in {PyTorch, Tensorflow, "jax"} }

\* model directories laid out <root>/<project_id>/<job_name>/<model_repository>/
\* model/<framework>/<timestamp>
RepositoryAboveModel ==
    { os_path_join_model(<< HOME, ProjectId, j, r >>, f, Stamp) :
      j \in {"job1", "huggingface"}, r \in {HuggingFace, Ultralytics},
      f \in {PyTorch, Tensorflow, "jax"} }

\* the ways of writing a directory: relative, absolute, with two or three
\* leading separators, with a trailing separator
Written(p) == { p, << "" >> \o p, << "", "" >> \o p, << "", "", "" >> \o p, p \o << "" >> }

\* the paths _extract_model_info is given: the model directories as written, a
\* file or directory inside one, a directory above one, the last segments only,
\* and these after two separators
ModelPaths ==
    UNION { Written(p) \cup { p \o << "training_args" >>, p \o << "training_args", ".." >>,
                              p \o << ".." >>, << ".", "" >> \o p }
                       \cup { SubSeq(p, k, Len(p)) : k \in 4..Len(p) }
                       \cup { << "", "" >> \o SubSeq(p, k, Len(p)) : k \in 5..Len(p) } :
            p \in SchemeLayout \cup RepositoryAboveModel }

InitParse ==
    /\ InitMain
    /\ InitMemo
    /\ result = << >>
    /\ \E model_path \in {Absent} \cup { Some(p) : p \in ModelPaths },
          found \in {Absent} \cup { Some(p) : p \in SchemeLayout \cup RepositoryAboveModel } :
          /\ model_path # Absent => found = Absent
          /\ args = << [job_name |-> "job1", project_id |-> ProjectId,
                        model_path |-> model_path, found |-> found] >>

\* HuggingFaceMixin._extract_model_info(job_name, project_id, model_path)
ExtractModelInfo ==
    /\ result = << >>
    /\ result' = << _extract_model_info(args[1].job_name, args[1].project_id,
                                        args[1].model_path, args[1].found) >>
    /\ UNCHANGED << args, mainVars, memoVars >>

SpecParse == InitParse /\ [][ExtractModelInfo]_vars

\* the path _extract_model_info parses: the one given, else the one found
ParsedPath == IF args[1].model_path # Absent THEN args[1].model_path ELSE args[1].found

\* the segments the parser reads the repository and the framework from: the
\* fourth and the second from the end of the normalised path
RepositorySegment(p) ==
    LET s == normpath_split(p) IN IF Len(s) >= 4 THEN Some(s[Len(s) - 3]) ELSE Absent

FrameworkSegment(p) ==
    LET s == normpath_split(p) IN IF Len(s) >= 2 THEN Some(s[Len(s) - 1]) ELSE Absent

\* C15: when the repository segment of the parsed path is not huggingface, or
\* its framework segment is not pytorch or tensorflow, _extract_model_info
\* fails with ValueError (MalformedArtifactPath); what it returns is the
\* repository and the framework found at those segments.
C15_MalformedPathRaises ==
    (result # << >> /\ ParsedPath # Absent) =>
        /\ (\/ RepositorySegment(ParsedPath[1]) # Some(HuggingFace)
            \/ FrameworkSegment(ParsedPath[1]) \notin {Some(PyTorch), Some(Tensorflow)})
              => result[1].exc = "ValueError"
        /\ result[1].exc = None =>
              /\ Some(result[1].val[2]) = RepositorySegment(ParsedPath[1])
              /\ Some(result[1].val[3]) = FrameworkSegment(ParsedPath[1])

\* C16: for every model path laid out <root>/<model_repository>/<project_id>/
\* <job_name>/model/<framework>/<timestamp> with repository huggingface and
\* framework pytorch or tensorflow, _extract_model_info succeeds and returns
\* that path, that repository and that framework.
C16_RoundTrip ==
    \A j \in {"job1", "huggingface"}, f \in {PyTorch, Tensorflow} :
        LET p == os_path_join_model(
                     build_model_repository_path(HOME, ProjectId, j, HuggingFace), f, Stamp)
        IN (result # << >> /\ args[1].model_path = Some(p)) =>
               result[1] = Return(<< p, HuggingFace, f >>)

\* C16, amended: the round trip holds for the model paths whose repository
\* directory is the one right above `model`, <root>/<project_id>/<job_name>/
\* <model_repository>/model/<framework>/<timestamp>, however the path is written.
C16_RoundTripRepositoryAboveModel ==
    \A j \in {"job1", "huggingface"}, f \in {PyTorch, Tensorflow} :
        \A p \in Written(os_path_join_model(<< HOME, ProjectId, j, HuggingFace >>, f, Stamp)) :
            (result # << >> /\ args[1].model_path = Some(p)) =>
                result[1] = Return(<< p, HuggingFace, f >>)

\* C16, witness: a tensorflow model path written with a trailing separator was
\* parsed back
C16_Witness_TrailingSeparator ==
    /\ result # << >>
    /\ args[1].model_path =
          Some(<< HOME, ProjectId, "job1", HuggingFace, "model", Tensorflow, Stamp, "" >>)
    /\ result[1].exc = None
    /\ result[1].val[3] = Tensorflow

(***************************************************************************)
(* The granularity of the timestamp segment of the model path.             *)
(***************************************************************************)
\* two start times within the same minute of the same day
SameMinute(a, b) ==
    a.Y = b.Y /\ a.M = b.M /\ a.D = b.D /\ a.h = b.h /\ a.m = b.m

\* C17: the timestamp segment has minute granularity: for the same root,
\* project, job, repository and framework, two runs that start within the same
\* minute get the same model path.
C17_SameMinuteSamePath ==
    (result # << >> /\ SameMinute(args[1].first, args[1].second)) =>
        result[1] = result[2]

(***************************************************************************)
(* The report of the driver and the end of a run.                          *)
(***************************************************************************)
\* C18: when the loop has run to completion the report holds exactly one
\* (job_name, training_loss or null) entry per job of the project, in the order
\* of the job listing; and while it runs, the jobs dispatched so far are the
\* first jobs of the listing, each with its entry appended before the next one
\* is dispatched.
C18_ReportInListingOrder ==
    /\ pc \in {"loop", "done"} =>
          /\ Len(training_losses) = idx
          /\ \A i \in 1..Len(training_losses) :
                /\ training_losses[i][1] = JobNames[i]
                /\ training_losses[i][2] \in {None, training_loss_of_trainer}
          /\ last.job_name # None =>
                /\ idx >= 1
                /\ last.job_name = JobNames[idx]
                /\ training_losses[idx] = << last.job_name, last.loss >>
    /\ pc = "done" => Len(training_losses) = Len(JobNames)

\* C18, witness: a completed run whose first job trained and whose second job
\* matched no row
C18_Witness_TwoEntries ==
    /\ pc = "done"
    /\ training_losses = << << "job1", training_loss_of_trainer >>, << "job2", None >> >>

\* C19: an exception raised inside an adapter propagates unchanged out of main
\* and ends the run: main is over with that exception, no entry was recorded
\* for the failing job, no later job is dispatched and no table is printed.
C19_AdapterExceptionAbortsRun ==
    /\ (last.adapters # << >> /\ last.exc # None) =>
          /\ pc = "crashed"
          /\ error = last.exc
          /\ Len(training_losses) = idx
          /\ idx < Len(JobNames)
          /\ last.job_name = JobNames[idx + 1]
          /\ \A i \in 1..Len(training_losses) : training_losses[i][1] # last.job_name
    /\ error # None => (pc = "crashed" /\ last.exc = error)

\* C19, witness: the second job's adapter failed on a download after the first
\* job was recorded
C19_Witness_SecondJobFails ==
    /\ pc = "crashed"
    /\ error = "ConnectionError"
    /\ last.adapters = << "train_text_classification_single" >>
    /\ last.job_name = "job2"
    /\ Len(training_losses) = 1

\* the saved models a call targets
TargetedModels(a, ms) == UNION { ModelsIn(ms, folder) : folder \in TargetedFolders(a) }

\* C20: clear_automl_cache deletes nothing outside its targets: the caches of
\* every other project and the global cache, the models of every other job,
\* of every repository not acted on and of every other framework are as they
\* were, nothing is created, and a call with an unrecognized command raises
\* ValueError and leaves the whole disk as it was.
C20_FrameOfInvalidation ==
    result # << >> =>
        LET a == args[1]
            before == result[1]
        IN /\ \A p \in DOMAIN before.models \ TargetedModels(a, before.models) :
                 p \in DOMAIN models /\ models[p] = before.models[p]
           /\ DOMAIN models \subseteq DOMAIN before.models
           /\ \A k \in DOMAIN before.memory.store :
                 k.location # TargetedCache(a) =>
                     k \in DOMAIN memory.store /\ memory.store[k] = before.memory.store[k]
           /\ DOMAIN memory.store \subseteq DOMAIN before.memory.store
           /\ before.memory.dirs \ {TargetedCache(a)} \subseteq memory.dirs
           /\ memory.dirs \subseteq before.memory.dirs
           /\ a.command \notin {"train", "prioritize"} =>
                 /\ before.exc = "ValueError"
                 /\ memory = before.memory
                 /\ models = before.models

\* C20, witness: train for job1 of project1 in the huggingface repository, on a
\* disk holding every model and every cache: the job's pytorch model and the
\* project's cache went, the four other models and the two other caches stayed
C20_Witness_OthersKept ==
    /\ result # << >>
    /\ args[1] = [project_id |-> "project1", command |-> "train",
                  model_repository |-> Some(HuggingFace), job_name |-> Some("job1")]
    /\ DOMAIN result[1].models = SavedModels
    /\ Cardinality(result[1].memory.dirs) = Len(EarlierCalls)
    /\ Cardinality(DOMAIN models) = Cardinality(SavedModels) - 1
    /\ Cardinality(memory.dirs) = Len(EarlierCalls) - 1
    /\ Path_cache("project2", "get_asset_memoized") \in memory.dirs

(***************************************************************************)
(* Runs of the text classification pipeline one after the other on the     *)
(* same disk, with assets that fail to download or carry an unknown        *)
(* category.                                                               *)
(***************************************************************************)
RetryOptions ==
    { o \in Options : /\ o.model_framework = None
                      /\ o.model_name = None
                      /\ o.model_repository = None
                      /\ o.json_args = Absent }

RetryJobs ==
    { j \in Jobs : j.content_input = Radio /\ j.mlTask = Classification /\ j.tools = Absent }

\* get_assets as the runs see it: the lists of ProjectAssets, and a good asset
\* followed by one that fails
RetryAssets ==
    ProjectAssets \cup
        { << [content |-> "url_a", category |-> "c1"], [content |-> "url_down", category |-> "c0"] >>,
          << [content |-> "url_nl", category |-> "c0"], [content |-> "url_a", category |-> "c9"] >> }

NextRetry ==
    \/ MainStart(RetryOptions, MaxRuns) /\ UNCHANGED << memoVars, checkVars >>
    \/ MainLoop(RetryJobs, RetryAssets) /\ UNCHANGED << memoVars, checkVars >>
    \/ MainFinish /\ UNCHANGED << memoVars, checkVars >>

SpecRetry == Init /\ [][NextRetry]_vars

\* a step of main's loop in which the text classification backend was entered
TextClassificationStep ==
    /\ pc = "loop"
    /\ (idx' = idx + 1 \/ pc' = "crashed")
    /\ last'.backend
    /\ last'.adapters = << "train_text_classification_single" >>

\* C21: when the text classification adapter fails while it writes the dataset
\* (a download error, a category that is not in the job's list) the dataset
\* file stays on disk and nothing is trained; the next run for the job without
\* clear_dataset_cache then fails with DatasetAlreadyExists (FileExistsError),
\* also when no run ever completed; a run with clear_dataset_cache does not fail
\* with that error and, when its own writing succeeds, trains.
C21_PartialDatasetLeft ==
    [][ TextClassificationStep =>
          LET pd == DatasetOf(last'.job_name)
          IN /\ last'.exc \in {"ConnectionError", "ValueError"} =>
                    /\ pd \in DOMAIN datasets'
                    /\ models' = models
                    /\ ~last'.trained
             /\ (pd \in DOMAIN datasets /\ ~opts.clear_dataset_cache) =>
                    /\ last'.exc = "FileExistsError"
                    /\ datasets' = datasets
             /\ opts.clear_dataset_cache =>
                    /\ last'.exc \in {None, "ConnectionError", "ValueError"}
                    /\ last'.exc = None => (last'.trained /\ pd \in DOMAIN datasets') ]_vars

\* C21, witness: the second run fails on the file the first run left, one line
\* written before its download failed, and no model was ever saved
C21_Witness_BlockedByPartialFile ==
    /\ runs = 2
    /\ ~opts.clear_dataset_cache
    /\ last.job_name = "job1"
    /\ last.exc = "FileExistsError"
    /\ models = EmptyDisk
    /\ datasets[DatasetOf("job1")] = json_dumps(<< "a" >>, 1) \o << NL >>

\* C21, witness of the recovery: a run with the flag trained over a file left by
\* a failed run
C21_Witness_Recovered ==
    /\ runs = 2
    /\ opts.clear_dataset_cache
    /\ last.job_name = "job1"
    /\ last.trained
    /\ Cardinality(DOMAIN models) = 1
    /\ \E p \in DOMAIN models : Len(models[p]) = 1

====
